---- MODULE Spec2Model ----
(***************************************************************************)
(* Model of the Meshtastic ZModem file transfer: the datagram shim         *)
(* (MeshtasticZModemStream), the protocol engine (ZModemEngine) and the    *)
(* session coordinator (AkitaMeshZmodem).                                  *)
(*                                                                         *)
(* Bytes are integers 0..255, byte streams are sequences of bytes.  A node *)
(* is a record holding the fields of the three objects; every C++ method   *)
(* is an operator from a node record to the node record after the call,    *)
(* the value returned by the call being left in the field ret.             *)
(*                                                                         *)
(* Time: every millis() comparison of the code has the shape               *)
(* millis() - stamp > limit, so a time stamp is kept as its age            *)
(* (millis() - stamp); taking a stamp sets the age to 0 and the passage of *)
(* time (Tick) adds TickMs to every age, saturating at AgeCap.             *)
(*                                                                         *)
(* The coordinator source drives the engine through the calls              *)
(* setTransferStream/send/receive/loop/abort; the engine offers            *)
(* setFileStream/send/receive/loop/abort.  The model binds the two in the  *)
(* obvious way: loop() returning 1 is COMPLETE, -1 is ERROR and 0 is       *)
(* TRANSFERRING.                                                           *)
(***************************************************************************)
EXTENDS Integers, Sequences, FiniteSets, TLC

VARIABLES node, act

vars == <<node, act>>

(***************************************************************************)
(* Protocol constants (ZModemEngine.h, ZModemEngine.cpp).                  *)
(***************************************************************************)
ZPAD == 42
ZDLE == 24
ZBIN == 65
ZHEX == 66
ZRQINIT == 0
ZRINIT == 1
ZACK == 3
ZFILE == 4
ZFIN == 8
ZRPOS == 9
ZDATA == 10
ZEOF == 11
ZCAN == 16
ZCRCG == 71
ZCRCE == 69
XON == 17
CR == 13
LF == 10

ZERO_FLAGS == <<0, 0, 0, 0>>

(***************************************************************************)
(* Configuration (AkitaMeshZmodemConfig.h) and the values the model runs   *)
(* the configurable ones with.                                             *)
(***************************************************************************)
AKZ_PACKET_IDENTIFIER == 255
AKZ_STREAM_RX_BUFFER_SIZE == 256
AKZ_STREAM_TX_BUFFER_SIZE == 256
RetryMs == 1000
KeepaliveMs == 3000
ChunkSize == 128
HeaderMin == 12
FileInfoBufferSize == 128

\* setMaxPacketSize(): the datagram size the model is configured with.
CfgMaxPacketSize == 32
\* setTimeout(): the inactivity timeout the model is configured with.
CfgTimeoutMs == 2000
\* The passage of time is observed in steps of TickMs milliseconds.
TickMs == 1001
\* Ages saturate after AgeTicks steps (beyond every limit they are compared with).
AgeTicks == 3

AgeCap == AgeTicks * TickMs

(***************************************************************************)
(* Byte arithmetic.                                                        *)
(***************************************************************************)
\* The result v of a call handed to what follows the call, K.  The result is
\* computed once, before K uses it.
Then(v, K(_)) == CHOOSE r \in {K(x) : x \in {v}} : TRUE

RECURSIVE Xor(_, _)
Xor(a, b) ==
    IF a = 0 THEN b
    ELSE IF b = 0 THEN a
    ELSE (((a % 2) + (b % 2)) % 2) + 2 * Xor(a \div 2, b \div 2)

RECURSIVE crcShift(_, _)
crcShift(crc, count) ==
    IF count = 0 THEN crc
    ELSE crcShift(IF crc >= 32768 THEN Xor((crc * 2) % 65536, 4129)
                  ELSE (crc * 2) % 65536, count - 1)

\* uint16_t ZModemEngine::_updcrc(uint8_t c, uint16_t crc)
updcrc(c, crc) == crcShift(Xor(crc, c * 256), 8)

\* The CRC of a run of bytes, from the CRC so far: _updcrc byte after byte,
\* evaluated half by half.
RECURSIVE crcOf(_, _)
crcOf(bytes, crc) ==
    IF bytes = <<>> THEN crc
    ELSE IF Len(bytes) = 1 THEN updcrc(bytes[1], crc)
    ELSE Then(crcOf(SubSeq(bytes, 1, Len(bytes) \div 2), crc), LAMBDA c :
            IF c >= 0 THEN crcOf(SubSeq(bytes, Len(bytes) \div 2 + 1, Len(bytes)), c)
            ELSE c)

\* One hexadecimal digit as printed by "%02X".
HexChar(d) == IF d < 10 THEN 48 + d ELSE 55 + d

\* sprintf("%02X", b)
Hex2(b) == <<HexChar(b \div 16), HexChar(b % 16)>>

HexDigit(c) ==
    IF c >= 48 /\ c <= 57 THEN c - 48
    ELSE IF c >= 65 /\ c <= 70 THEN c - 55
    ELSE IF c >= 97 /\ c <= 102 THEN c - 87
    ELSE -1

IsSpace(c) == c = 32 \/ (c >= 9 /\ c <= 13)

\* (uint8_t) strtoul(tmp, NULL, 16) of the two characters c1 c2 followed by NUL.
ParseHex2(c1, c2) ==
    IF c1 = 0 THEN 0
    ELSE IF IsSpace(c1) THEN (IF c2 # 0 /\ HexDigit(c2) >= 0 THEN HexDigit(c2) ELSE 0)
    ELSE IF c1 = 43 THEN (IF c2 # 0 /\ HexDigit(c2) >= 0 THEN HexDigit(c2) ELSE 0)
    ELSE IF c1 = 45 THEN (IF c2 # 0 /\ HexDigit(c2) >= 0 THEN (256 - HexDigit(c2)) % 256 ELSE 0)
    ELSE IF HexDigit(c1) < 0 THEN 0
    ELSE IF c2 # 0 /\ HexDigit(c2) >= 0 THEN HexDigit(c1) * 16 + HexDigit(c2)
    ELSE HexDigit(c1)

RECURSIVE DecDigits(_)
DecDigits(v) == IF v < 10 THEN <<48 + v>> ELSE DecDigits(v \div 10) \o <<48 + (v % 10)>>

RECURSIVE ParseDecFrom(_, _)
ParseDecFrom(s, acc) ==
    IF s = <<>> \/ Head(s) < 48 \/ Head(s) > 57 THEN acc
    ELSE ParseDecFrom(Tail(s), acc * 10 + (Head(s) - 48))

RECURSIVE SkipSpace(_)
SkipSpace(s) == IF s # <<>> /\ IsSpace(Head(s)) THEN SkipSpace(Tail(s)) ELSE s

\* strtoul(sizeStr, NULL, 10) of a NUL-terminated string given without its NUL.
ParseDec(s) ==
    LET t == SkipSpace(s)
        u == IF t # <<>> /\ Head(t) = 43 THEN Tail(t) ELSE t
    IN  ParseDecFrom(u, 0)

(***************************************************************************)
(* MeshtasticZModemStream: the datagram shim.                              *)
(*   rxBuffer          the unread bytes _rxBuffer[_rxBufferIndex ..        *)
(*                     _rxBufferSize-1]                                    *)
(*   txBuffer          _txBuffer[0 .. _txBufferIndex-1]                    *)
(*   inq               the packets the mesh holds for this node            *)
(*                     (_mesh->available() / _mesh->receive())             *)
(*   meshUp            whether _mesh->sendPacket() succeeds at present     *)
(* Logs of the calls made during the current step (not program state):     *)
(*   emitted           the datagrams handed to the mesh                    *)
(*   sends             one record per _mesh->sendPacket() call             *)
(*   written           the bytes write() has stored in the tx buffer       *)
(*   exams             one record per packet taken from the mesh           *)
(* since the last reset():                                                 *)
(*   seqLog            the sequence numbers of the datagrams emitted       *)
(*   payLog            the payload bytes (bytes 3..) emitted               *)
(*   wrLog             the bytes for which write() has returned 1          *)
(*   accLog, accSeqs   the payload bytes accepted into rxBuffer and the    *)
(*                     sequence numbers they were accepted under           *)
(*   sawFail           whether _mesh->sendPacket() has failed              *)
(* and since the node was set up:                                          *)
(*   payAll, accAll    the payload bytes emitted / accepted                *)
(*   sinceDelivery     the time since a packet was last taken from the     *)
(*                     mesh (or the transfer was started)                  *)
(***************************************************************************)
\* A variant of sendFailed that advances the sequence number although the mesh
\* refused the packet.
sendFailedAdvancing(n, tb) ==
    [n EXCEPT !.txBuffer = tb, !.sentPacketId = (@ + 1) % 65536, !.sawFail = TRUE,
              !.ret = 0]

\* The else branch of sendPacket(): the mesh refused the packet.  The buffer
\* keeps the bytes the packet was built from, the sequence number stays.
sendFailed(n, tb) == [n EXCEPT !.txBuffer = tb, !.sawFail = TRUE, !.ret = 0]

\* bool MeshtasticZModemStream::sendPacket()
sendPacket(n) ==
    IF Len(n.txBuffer) = 0 THEN [n EXCEPT !.ret = 1]
    ELSE
      LET tb == IF Len(n.txBuffer) + 3 > n.maxPacketSize
                THEN SubSeq(n.txBuffer, 1, n.maxPacketSize - 3)
                ELSE n.txBuffer
          packet == <<AKZ_PACKET_IDENTIFIER, n.sentPacketId \div 256,
                      n.sentPacketId % 256>> \o tb
          after == IF n.meshUp
                   THEN [n EXCEPT !.txBuffer = <<>>,
                                  !.sentPacketId = (@ + 1) % 65536,
                                  !.emitted = Append(@, packet),
                                  !.seqLog = Append(@, n.sentPacketId),
                                  !.payLog = @ \o tb,
                                  !.payAll = @ \o tb,
                                  !.ret = 1]
                   ELSE sendFailed(n, tb)
      IN  [after EXCEPT !.sends = Append(@, [ok |-> n.meshUp,
                                             before |-> n.txBuffer,
                                             after |-> after.txBuffer,
                                             seqBefore |-> n.sentPacketId,
                                             seqAfter |-> after.sentPacketId,
                                             packet |-> packet])]

\* bool MeshtasticZModemStream::flush()
flush(n) == sendPacket(n)

\* The second half of write(): the byte is stored, and the buffer is flushed
\* when it has reached maxPacketSize - 3 bytes.
store(n, val) ==
    Then([n EXCEPT !.txBuffer = Append(@, val), !.written = Append(@, val),
                   !.wrLog = Append(@, val)], LAMBDA n2 :
        [(IF Len(n2.txBuffer) >= n2.maxPacketSize - 3 THEN flush(n2) ELSE n2)
            EXCEPT !.ret = 1])

\* size_t MeshtasticZModemStream::write(uint8_t val)
write(n, val) ==
    IF Len(n.txBuffer) >= AKZ_STREAM_TX_BUFFER_SIZE
    THEN Then(flush(n), LAMBDA n1 :
            IF n1.ret = 0 \/ Len(n1.txBuffer) >= AKZ_STREAM_TX_BUFFER_SIZE
            THEN [n1 EXCEPT !.ret = 0]
            ELSE store(n1, val))
    ELSE store(n, val)

\* A run of single-byte write() calls whose results the caller ignores.  The
\* run is evaluated half by half, which yields what byte after byte yields.
RECURSIVE writeEach(_, _)
writeEach(n, bytes) ==
    IF bytes = <<>> THEN n
    ELSE IF Len(bytes) = 1 THEN write(n, bytes[1])
    ELSE Then(writeEach(n, SubSeq(bytes, 1, Len(bytes) \div 2)), LAMBDA n1 :
            IF n1.ret \in {0, 1}
            THEN writeEach(n1, SubSeq(bytes, Len(bytes) \div 2 + 1, Len(bytes)))
            ELSE n1)

\* size_t MeshtasticZModemStream::write(const uint8_t *buffer, size_t size):
\* the loop ends at the first byte that write() refuses.
RECURSIVE writeBuf(_, _)
writeBuf(n, bytes) ==
    IF bytes = <<>> THEN n
    ELSE IF Len(bytes) = 1 THEN write(n, bytes[1])
    ELSE Then(writeBuf(n, SubSeq(bytes, 1, Len(bytes) \div 2)), LAMBDA n1 :
            IF n1.ret = 1
            THEN writeBuf(n1, SubSeq(bytes, Len(bytes) \div 2 + 1, Len(bytes)))
            ELSE n1)

\* A variant of accepts that does not look at the identifier byte.
acceptsAnyIdentifier(n, p) ==
    /\ Len(p) >= 3
    /\ p[2] * 256 + p[3] = n.expectedPacketId
    /\ Len(p) - 3 <= AKZ_STREAM_RX_BUFFER_SIZE

\* A variant of accepts that takes a packet numbered ahead of the expected one.
acceptsAhead(n, p) ==
    /\ Len(p) >= 3
    /\ p[1] = AKZ_PACKET_IDENTIFIER
    /\ p[2] * 256 + p[3] >= n.expectedPacketId
    /\ Len(p) - 3 <= AKZ_STREAM_RX_BUFFER_SIZE

\* A variant of accepts that takes a packet seen before once more.
acceptsOld(n, p) ==
    /\ Len(p) >= 3
    /\ p[1] = AKZ_PACKET_IDENTIFIER
    /\ p[2] * 256 + p[3] <= n.expectedPacketId
    /\ Len(p) - 3 <= AKZ_STREAM_RX_BUFFER_SIZE

\* The tests of available() a packet passes before its payload is copied: the
\* length, the identifier, the sequence number, the size of the rx buffer.
accepts(n, p) ==
    /\ Len(p) >= 3
    /\ p[1] = AKZ_PACKET_IDENTIFIER
    /\ p[2] * 256 + p[3] = n.expectedPacketId
    /\ Len(p) - 3 <= AKZ_STREAM_RX_BUFFER_SIZE

\* int MeshtasticZModemStream::available()
available(n) ==
    IF Len(n.rxBuffer) > 0 THEN [n EXCEPT !.ret = Len(n.rxBuffer)]
    ELSE IF n.inq = <<>> THEN [n EXCEPT !.ret = 0]
    ELSE
      LET p == Head(n.inq)
          id == p[2] * 256 + p[3]
          accept == accepts(n, p)
          after == IF accept
                   THEN [n EXCEPT !.inq = Tail(@), !.sinceDelivery = 0,
                                  !.rxBuffer = SubSeq(p, 4, Len(p)),
                                  !.expectedPacketId = (@ + 1) % 65536,
                                  !.accLog = @ \o SubSeq(p, 4, Len(p)),
                                  !.accAll = @ \o SubSeq(p, 4, Len(p)),
                                  !.accSeqs = Append(@, id),
                                  !.ret = Len(p) - 3]
                   ELSE [n EXCEPT !.inq = Tail(@), !.sinceDelivery = 0,
                                  !.rxBuffer = <<>>, !.ret = 0]
      IN  [after EXCEPT !.exams = Append(@, [packet |-> p,
                                             expBefore |-> n.expectedPacketId,
                                             expAfter |-> after.expectedPacketId,
                                             accepted |-> accept,
                                             rxAfter |-> after.rxBuffer])]

\* int MeshtasticZModemStream::read()
read(n) ==
    Then(available(n), LAMBDA n1 :
        IF n1.ret > 0
        THEN [n1 EXCEPT !.rxBuffer = Tail(@), !.ret = Head(n1.rxBuffer)]
        ELSE [n1 EXCEPT !.ret = -1])

\* void MeshtasticZModemStream::reset()
reset(n) ==
    [n EXCEPT !.rxBuffer = <<>>, !.txBuffer = <<>>,
              !.expectedPacketId = 0, !.sentPacketId = 0,
              !.seqLog = <<>>, !.payLog = <<>>, !.wrLog = <<>>, !.accLog = <<>>,
              !.accSeqs = <<>>, !.sawFail = FALSE]

(***************************************************************************)
(* Stream::timedRead and Stream::readBytes as the engine uses them: read() *)
(* is retried until it yields a byte or the wait ends; the wait is         *)
(* modelled as ending when the mesh holds no further packet for the node.  *)
(***************************************************************************)
RECURSIVE timedRead(_)
timedRead(n) ==
    Then(read(n), LAMBDA n1 :
        IF n1.ret >= 0 \/ Len(n1.inq) = Len(n.inq) THEN n1 ELSE timedRead(n1))

\* size_t Stream::readBytes(char *buffer, size_t length): the bytes are left in
\* the field buf, their number in ret.
RECURSIVE readBytesTo(_, _, _)
readBytesTo(n, length, got) ==
    IF Len(got) = length THEN [n EXCEPT !.buf = got, !.ret = Len(got)]
    ELSE Then(timedRead(n), LAMBDA n1 :
            IF n1.ret < 0 THEN [n1 EXCEPT !.buf = got, !.ret = Len(got)]
            ELSE readBytesTo(n1, length, Append(got, n1.ret)))

readBytes(n, length) == readBytesTo(n, length, <<>>)

(***************************************************************************)
(* The file system (FS) and the transfer file (File): files is the set of  *)
(* paths that exist, fs their contents; fileOpen, fileMode, filePos and    *)
(* openPath are the state of _transferFile.                                *)
(***************************************************************************)
\* The content of the open file.
disk(n) == n.fs[n.openPath]

\* int File::available()
fileAvailable(n) == IF n.fileOpen THEN Len(disk(n)) - n.filePos ELSE 0

\* bool File::seek(pos): a position past the end of the file is refused.
fileSeek(n, pos) ==
    IF n.fileOpen /\ pos <= Len(disk(n)) THEN [n EXCEPT !.filePos = pos] ELSE n

\* size_t File::write(uint8_t)
fileWrite(n, b) ==
    IF n.fileOpen /\ n.fileMode = "w"
    THEN [n EXCEPT !.fs[n.openPath] = SubSeq(@, 1, n.filePos) \o <<b>>, !.filePos = @ + 1]
    ELSE n

\* File FS::open(path, FILE_READ): fails (fileOpen stays false) when no such file.
openRead(n, filePath) ==
    IF filePath \in n.files
    THEN [n EXCEPT !.fileOpen = TRUE, !.fileMode = "r", !.filePos = 0, !.openPath = filePath]
    ELSE n

\* File FS::open(path, FILE_WRITE): creates or truncates the file.
openWrite(n, filePath) ==
    [n EXCEPT !.fileOpen = TRUE, !.fileMode = "w", !.filePos = 0, !.openPath = filePath,
              !.files = @ \cup {filePath}, !.fs[filePath] = <<>>]

\* void File::close()
fileClose(n) == [n EXCEPT !.fileOpen = FALSE, !.filePos = 0]

(***************************************************************************)
(* ZModemEngine: frame emission.  sentHdrs logs the types of the HEX       *)
(* headers written during the current step.                                *)
(***************************************************************************)
\* The CRC-16 of a header: type and four flag bytes.
headerCrc(type, flags) == crcOf(<<type>> \o flags, 0)

\* The bytes _sendHexHeader writes.
HexHeaderBytes(type, flags) ==
    LET crc == headerCrc(type, flags)
    IN  <<ZPAD, ZPAD, ZDLE, ZHEX>>
        \o Hex2(type) \o Hex2(flags[1]) \o Hex2(flags[2]) \o Hex2(flags[3]) \o Hex2(flags[4])
        \o Hex2(crc \div 256) \o Hex2(crc % 256)
        \o <<CR, LF>>
        \o (IF type # ZFIN /\ type # ZACK THEN <<XON>> ELSE <<>>)

\* void ZModemEngine::_sendHexHeader(uint8_t type, const uint8_t* flags)
sendHexHeader(n, type, flags) ==
    LET crc == headerCrc(type, flags)
        digits == Hex2(type) \o Hex2(flags[1]) \o Hex2(flags[2])
                  \o Hex2(flags[3]) \o Hex2(flags[4])
    IN  [writeEach(writeBuf(writeBuf(writeEach(n, <<ZPAD, ZPAD, ZDLE, ZHEX>>), digits),
                            Hex2(crc \div 256) \o Hex2(crc % 256)),
                   <<CR, LF>> \o (IF type # ZFIN /\ type # ZACK THEN <<XON>> ELSE <<>>))
            EXCEPT !.sentHdrs = Append(@, type)]

\* void ZModemEngine::_sendBinaryHeader(uint8_t type, const uint8_t* flags)
sendBinaryHeader(n, type, flags) ==
    LET crc == headerCrc(type, flags)
    IN  writeEach(n, <<ZPAD, ZDLE, ZBIN, type>> \o flags \o <<crc \div 256, crc % 256>>)

\* A variant of escapeByte that escapes the byte 5 as well.
escapeByteWide(b) ==
    IF b = ZDLE \/ b = 16 \/ b = 17 \/ b = 19 \/ b = 13 \/ b = 141 \/ b = 5
    THEN <<ZDLE, Xor(b, 64)>>
    ELSE <<b>>

\* The bytes a data byte is sent as (ZDLE escaping).
escapeByte(b) ==
    IF b = ZDLE \/ b = 16 \/ b = 17 \/ b = 19 \/ b = 13 \/ b = 141
    THEN <<ZDLE, Xor(b, 64)>>
    ELSE <<b>>

RECURSIVE escapeAll(_)
escapeAll(data) ==
    IF data = <<>> THEN <<>>
    ELSE IF Len(data) = 1 THEN escapeByte(data[1])
    ELSE escapeAll(SubSeq(data, 1, Len(data) \div 2))
         \o escapeAll(SubSeq(data, Len(data) \div 2 + 1, Len(data)))

\* void ZModemEngine::_sendDataSubpacket(const uint8_t* data, size_t len, bool endFrame)
sendDataSubpacket(n, data, endFrame) ==
    LET term == IF endFrame THEN ZCRCE ELSE ZCRCG
        crc == updcrc(term, crcOf(data, 0))
    IN  writeEach(n, escapeAll(data) \o <<ZDLE, term>> \o <<crc \div 256, crc % 256>>)

\* The four flag bytes of a 32-bit little-endian offset.
posFlags(v) ==
    <<v % 256, (v \div 256) % 256, (v \div 65536) % 256, (v \div 16777216) % 256>>

\* size_t pos = rxFlags[0] | (rxFlags[1] << 8) | (rxFlags[2] << 16) | (rxFlags[3] << 24)
flagsPos(f) == f[1] + f[2] * 256 + f[3] * 65536 + f[4] * 16777216

(***************************************************************************)
(* ZModemEngine: header reader.  rxType and rxFlags receive the header,    *)
(* ret the result (1: a header was read).                                  *)
(***************************************************************************)
\* The four flag bytes: four readBytes(buf, 2) calls; ret 0 when one falls short.
RECURSIVE readFlags(_, _)
readFlags(n, got) ==
    IF Len(got) = 4 THEN [n EXCEPT !.rxFlags = got, !.ret = 1]
    ELSE Then(readBytes(n, 2), LAMBDA n1 :
            IF n1.ret < 2 THEN [n1 EXCEPT !.ret = 0]
            ELSE readFlags(n1, Append(got, ParseHex2(n1.buf[1], n1.buf[2]))))

\* The read() == ZPAD && read() == ZPAD && read() == ZDLE && read() == ZHEX test:
\* ret 1 when all four matched; reading stops at the first mismatch.
RECURSIVE readPrefix(_, _)
readPrefix(n, want) ==
    IF want = <<>> THEN [n EXCEPT !.ret = 1]
    ELSE Then(read(n), LAMBDA n1 :
            IF n1.ret = Head(want) THEN readPrefix(n1, Tail(want))
            ELSE [n1 EXCEPT !.ret = 0])

\* int ZModemEngine::_readHexHeader(uint8_t& type, uint8_t* flags)
readHexHeader(n) ==
    Then(available(n), LAMBDA a :
      IF a.ret < HeaderMin THEN [a EXCEPT !.ret = 0]
      ELSE Then(readPrefix(a, <<ZPAD, ZPAD, ZDLE, ZHEX>>), LAMBDA p :
        IF p.ret = 0 THEN p
        ELSE Then(readBytes(p, 2), LAMBDA t :
          IF t.ret < 2 THEN [t EXCEPT !.ret = 0]
          ELSE Then(readFlags([t EXCEPT !.rxType = ParseHex2(t.buf[1], t.buf[2])], <<>>),
                    LAMBDA f :
            IF f.ret = 0 THEN f
            ELSE Then(readBytes(f, 4), LAMBDA c :
              IF c.ret < 4 THEN [c EXCEPT !.ret = 0]
              ELSE Then(readBytes(c, 2), LAMBDA e :
                [e EXCEPT !.ret = IF e.ret < 2 THEN 0 ELSE 1]))))))

(***************************************************************************)
(* ZModemEngine: the sender.                                               *)
(*   state, rState, isSender, timeoutMs, zFilename, zFileSize,             *)
(*   zBytesTransferred, hasFile (_file != nullptr) are the engine's fields *)
(*   lastActivity          the age of _lastActivity                        *)
(*   lastSend, lastAck     the ages of the function-static stamps          *)
(*   hdrs                  the types of the headers read during the step   *)
(***************************************************************************)
\* A variant of senderResponse that, asked for a position after the end of
\* file has been announced, goes back to streaming.
senderResponseBackward(n) ==
    IF n.state = "SEND_ZEOF" /\ n.rxType = ZRPOS
    THEN [fileSeek(n, flagsPos(n.rxFlags))
             EXCEPT !.zBytesTransferred = flagsPos(n.rxFlags), !.state = "SEND_ZDATA"]
    ELSE IF n.state \in {"SEND_ZRQINIT", "AWAIT_ZRINIT"} /\ n.rxType = ZRINIT
    THEN [n EXCEPT !.state = "SEND_ZFILE"]
    ELSE IF n.state \in {"SEND_ZFILE", "SEND_ZDATA"} /\ n.rxType = ZRPOS
    THEN [fileSeek(n, flagsPos(n.rxFlags))
             EXCEPT !.zBytesTransferred = flagsPos(n.rxFlags), !.state = "SEND_ZDATA"]
    ELSE IF n.state = "SEND_ZEOF" /\ n.rxType = ZRINIT THEN [n EXCEPT !.state = "SEND_ZFIN"]
    ELSE IF n.state = "SEND_ZFIN" /\ n.rxType = ZFIN
    THEN [writeBuf(n, <<79, 79>>) EXCEPT !.state = "COMPLETE"]
    ELSE n

\* A variant of senderResponse that, asked for a position after the last
\* chunk, moves the file and the byte count there.
senderResponseSeeking(n) ==
    IF n.state \in {"SEND_ZEOF", "SEND_ZFIN"} /\ n.rxType = ZRPOS
    THEN [fileSeek(n, flagsPos(n.rxFlags)) EXCEPT !.zBytesTransferred = flagsPos(n.rxFlags)]
    ELSE senderResponseBackward(n)

\* A variant of senderResponse that, asked for a position while streaming,
\* takes the position over without moving the file.
senderResponseNoSeek(n) ==
    IF n.state = "SEND_ZDATA" /\ n.rxType = ZRPOS
    THEN [n EXCEPT !.zBytesTransferred = flagsPos(n.rxFlags)]
    ELSE IF n.state \in {"SEND_ZRQINIT", "AWAIT_ZRINIT"} /\ n.rxType = ZRINIT
    THEN [n EXCEPT !.state = "SEND_ZFILE"]
    ELSE IF n.state = "SEND_ZFILE" /\ n.rxType = ZRPOS
    THEN [fileSeek(n, flagsPos(n.rxFlags))
             EXCEPT !.zBytesTransferred = flagsPos(n.rxFlags), !.state = "SEND_ZDATA"]
    ELSE IF n.state = "SEND_ZEOF" /\ n.rxType = ZRINIT THEN [n EXCEPT !.state = "SEND_ZFIN"]
    ELSE n

\* The switch on _state that processes a received header (rxType, rxFlags).
senderResponse(n) ==
    LET pos == flagsPos(n.rxFlags)
    IN  CASE n.state \in {"SEND_ZRQINIT", "AWAIT_ZRINIT"} ->
               IF n.rxType = ZRINIT THEN [n EXCEPT !.state = "SEND_ZFILE"] ELSE n
          [] n.state = "SEND_ZFILE" ->
               IF n.rxType = ZRPOS
               THEN [(IF n.hasFile THEN fileSeek(n, pos) ELSE n)
                        EXCEPT !.zBytesTransferred = pos, !.state = "SEND_ZDATA"]
               ELSE n
          [] n.state = "SEND_ZDATA" ->
               IF n.rxType = ZACK THEN n
               ELSE IF n.rxType = ZRPOS
               THEN [(IF n.hasFile THEN fileSeek(n, pos) ELSE n)
                        EXCEPT !.zBytesTransferred = pos]
               ELSE n
          [] n.state = "SEND_ZEOF" ->
               IF n.rxType = ZRINIT THEN [n EXCEPT !.state = "SEND_ZFIN"] ELSE n
          [] n.state = "SEND_ZFIN" ->
               IF n.rxType = ZFIN
               THEN [writeBuf(n, <<79, 79>>) EXCEPT !.state = "COMPLETE"]
               ELSE n
          [] OTHER -> n

\* The bytes of the ZFILE data subpacket: filename, NUL, decimal size, NUL,
\* cut to 127 bytes.
fileInfoPayload(n) ==
    LET info == n.zFilename \o <<0>> \o DecDigits(n.zFileSize) \o <<0>>
    IN  SubSeq(info, 1, IF Len(info) > ChunkSize - 1 THEN ChunkSize - 1 ELSE Len(info))

\* A variant of sendZDATA that never ends the frame.
sendZDATAOpenFrame(n) ==
    LET readLen == IF fileAvailable(n) > ChunkSize THEN ChunkSize ELSE fileAvailable(n)
        chunk == SubSeq(disk(n), n.filePos + 1, n.filePos + readLen)
        isLast == fileAvailable(n) - readLen = 0
    IN  IF n.hasFile /\ fileAvailable(n) > 0
        THEN [sendDataSubpacket(sendBinaryHeader([n EXCEPT !.filePos = @ + readLen],
                                                 ZDATA, posFlags(n.zBytesTransferred)),
                                chunk, FALSE)
                 EXCEPT !.zBytesTransferred = @ + readLen,
                        !.lastSend = 0,
                        !.state = IF isLast THEN "SEND_ZEOF" ELSE @]
        ELSE IF n.zBytesTransferred = n.zFileSize THEN [n EXCEPT !.state = "SEND_ZEOF"]
        ELSE n

\* STATE_SEND_ZDATA of the sending switch.
sendZDATA(n) ==
    LET readLen == IF fileAvailable(n) > ChunkSize THEN ChunkSize ELSE fileAvailable(n)
        chunk == SubSeq(disk(n), n.filePos + 1, n.filePos + readLen)
        isLast == fileAvailable(n) - readLen = 0
    IN  IF n.hasFile /\ fileAvailable(n) > 0
        THEN [sendDataSubpacket(sendBinaryHeader([n EXCEPT !.filePos = @ + readLen],
                                                 ZDATA, posFlags(n.zBytesTransferred)),
                                chunk, isLast)
                 EXCEPT !.zBytesTransferred = @ + readLen,
                        !.lastSend = 0,
                        !.state = IF isLast THEN "SEND_ZEOF" ELSE @]
        ELSE IF n.zBytesTransferred = n.zFileSize THEN [n EXCEPT !.state = "SEND_ZEOF"]
        ELSE n

\* A variant of senderAction that gives up instead of sending ZRQINIT again
\* (the first ZRQINIT follows the eight bytes abort() has left in the shim).
senderActionGivingUp(n) ==
    IF n.state = "SEND_ZRQINIT" /\ n.lastSend > RetryMs
    THEN IF Len(n.payLog) + Len(n.txBuffer) > 8
         THEN [n EXCEPT !.state = "ERROR"]
         ELSE [sendHexHeader(n, ZRQINIT, ZERO_FLAGS) EXCEPT !.lastSend = 0]
    ELSE IF n.state = "SEND_ZDATA" THEN sendZDATA(n)
    ELSE IF n.state = "SEND_ZFILE" /\ n.lastSend > RetryMs
    THEN [sendDataSubpacket(sendBinaryHeader(n, ZFILE, ZERO_FLAGS),
                            fileInfoPayload(n), TRUE) EXCEPT !.lastSend = 0]
    ELSE IF n.state = "SEND_ZEOF" /\ n.lastSend > RetryMs
    THEN [sendHexHeader(n, ZEOF, posFlags(n.zBytesTransferred)) EXCEPT !.lastSend = 0]
    ELSE IF n.state = "SEND_ZFIN" /\ n.lastSend > RetryMs
    THEN [sendHexHeader(n, ZFIN, ZERO_FLAGS) EXCEPT !.lastSend = 0]
    ELSE n

\* A variant of senderAction whose ZEOF header carries no offset.
senderActionEofZero(n) ==
    IF n.state = "SEND_ZEOF" /\ n.lastSend > RetryMs
    THEN [sendHexHeader(n, ZEOF, ZERO_FLAGS) EXCEPT !.lastSend = 0]
    ELSE IF n.state = "SEND_ZDATA" THEN sendZDATA(n)
    ELSE IF n.state = "SEND_ZRQINIT" /\ n.lastSend > RetryMs
    THEN [sendHexHeader(n, ZRQINIT, ZERO_FLAGS) EXCEPT !.lastSend = 0]
    ELSE IF n.state = "SEND_ZFILE" /\ n.lastSend > RetryMs
    THEN [sendDataSubpacket(sendBinaryHeader(n, ZFILE, ZERO_FLAGS),
                            fileInfoPayload(n), TRUE) EXCEPT !.lastSend = 0]
    ELSE IF n.state = "SEND_ZFIN" /\ n.lastSend > RetryMs
    THEN [sendHexHeader(n, ZFIN, ZERO_FLAGS) EXCEPT !.lastSend = 0]
    ELSE n

\* The switch on _state that sends (and re-sends every RetryMs).
senderAction(n) ==
    CASE n.state = "SEND_ZRQINIT" ->
           IF n.lastSend > RetryMs
           THEN [sendHexHeader(n, ZRQINIT, ZERO_FLAGS) EXCEPT !.lastSend = 0]
           ELSE n
      [] n.state = "SEND_ZFILE" ->
           IF n.lastSend > RetryMs
           THEN [sendDataSubpacket(sendBinaryHeader(n, ZFILE, ZERO_FLAGS),
                                   fileInfoPayload(n), TRUE) EXCEPT !.lastSend = 0]
           ELSE n
      [] n.state = "SEND_ZDATA" -> sendZDATA(n)
      [] n.state = "SEND_ZEOF" ->
           IF n.lastSend > RetryMs
           THEN [sendHexHeader(n, ZEOF, posFlags(n.zBytesTransferred)) EXCEPT !.lastSend = 0]
           ELSE n
      [] n.state = "SEND_ZFIN" ->
           IF n.lastSend > RetryMs
           THEN [sendHexHeader(n, ZFIN, ZERO_FLAGS) EXCEPT !.lastSend = 0]
           ELSE n
      [] OTHER -> n

\* void ZModemEngine::_handleSenderLoop()
handleSenderLoop(n) ==
    senderAction(
        Then(available(n), LAMBDA a :
          IF a.ret = 0 THEN a
          ELSE Then(readHexHeader(a), LAMBDA h :
                 IF h.ret = 1
                 THEN senderResponse([h EXCEPT !.lastActivity = 0,
                                               !.hdrs = Append(@, h.rxType)])
                 ELSE h)))

(***************************************************************************)
(* ZModemEngine: the receiver.                                             *)
(*   fileInfoBuffer  _fileInfoBuffer[0 .. _fileInfoIndex-1]                *)
(*   returned        set when _handleReceiverLoop returned from inside the *)
(*                   file-info loop                                        *)
(***************************************************************************)
RECURSIVE UpToNul(_)
UpToNul(s) == IF s = <<>> \/ Head(s) = 0 THEN <<>> ELSE <<Head(s)>> \o UpToNul(Tail(s))

\* The end of the ZFILE subpacket: parse "filename NUL size NUL" from the
\* file-info buffer, acknowledge with ZRPOS, go on to read file data.  When the
\* buffer holds no NUL the size string is read from behind the terminator the
\* code has just written, where the buffer holds whatever it held before: u.
parseFileInfo(n, u) ==
    LET info == n.fileInfoBuffer
        name == UpToNul(info)
        sizeStr == UpToNul(SubSeq(info, Len(name) + 2, Len(info)))
        parsedSize == IF Len(name) = Len(info) THEN u
                      ELSE IF sizeStr = <<>> THEN 0
                      ELSE ParseDec(sizeStr)
    IN  [sendHexHeader([n EXCEPT !.zFilename = name, !.zFileSize = parsedSize],
                       ZRPOS, ZERO_FLAGS)
            EXCEPT !.rState = "READ_ZDATA",
                   !.fileInfoBuffer = <<>>,
                   !.fileInfoEscape = FALSE,
                   !.fileInfoAwaitingCRC = FALSE]

\* The number of bytes at the head of s that are not ZDLE.
PlainRun(s) ==
    CHOOSE k \in 0..Len(s) :
        /\ \A i \in 1..k : s[i] # ZDLE
        /\ k = Len(s) \/ s[k + 1] = ZDLE

\* A variant of storePlain that stores the bytes whatever room there is.
storePlainUnbounded(a) ==
    [a EXCEPT !.fileInfoBuffer = @ \o SubSeq(a.rxBuffer, 1, PlainRun(a.rxBuffer)),
              !.rxBuffer = SubSeq(@, PlainRun(a.rxBuffer) + 1, Len(@))]

\* The passes of the loop of RSTATE_READ_ZFILE over the bytes other than ZDLE
\* at the head of the rx buffer, outside an escape: they are stored as long as
\* the file-info buffer has room; the byte read when it has none ends the
\* transfer.
storePlain(a) ==
    LET run == PlainRun(a.rxBuffer)
        room == FileInfoBufferSize - 1 - Len(a.fileInfoBuffer)
    IN  IF run <= room
        THEN [a EXCEPT !.fileInfoBuffer = @ \o SubSeq(a.rxBuffer, 1, run),
                       !.rxBuffer = SubSeq(@, run + 1, Len(@))]
        ELSE [a EXCEPT !.fileInfoBuffer = @ \o SubSeq(a.rxBuffer, 1, room),
                       !.rxBuffer = SubSeq(@, room + 2, Len(@)),
                       !.state = "ERROR", !.returned = TRUE]

\* The while (_io->available()) loop of RSTATE_READ_ZFILE.  The bytes other
\* than ZDLE outside an escape are taken a run at a time, which yields what
\* byte after byte yields.
RECURSIVE readZFILE(_, _)
readZFILE(n, u) ==
    Then(available(n), LAMBDA a :
      IF a.ret = 0 THEN a
      ELSE IF ~a.fileInfoEscape /\ Head(a.rxBuffer) # ZDLE
      THEN Then(storePlain(a), LAMBDA s : IF s.returned THEN s ELSE readZFILE(s, u))
      ELSE Then(read(a), LAMBDA r :
        IF r.ret = -1 THEN r
        ELSE IF ~r.fileInfoEscape THEN
          IF r.ret = ZDLE THEN readZFILE([r EXCEPT !.fileInfoEscape = TRUE], u)
          ELSE IF Len(r.fileInfoBuffer) < FileInfoBufferSize - 1
          THEN readZFILE([r EXCEPT !.fileInfoBuffer = Append(@, r.ret)], u)
          ELSE [r EXCEPT !.state = "ERROR", !.returned = TRUE]
        ELSE IF r.ret = ZCRCE \/ r.ret = ZCRCG THEN
          Then(available([r EXCEPT !.fileInfoEscape = FALSE]), LAMBDA av :
            IF av.ret < 2 THEN [av EXCEPT !.fileInfoAwaitingCRC = TRUE]
            ELSE parseFileInfo(read(read(av)), u))
        ELSE IF Len(r.fileInfoBuffer) < FileInfoBufferSize - 1
        THEN readZFILE([r EXCEPT !.fileInfoEscape = FALSE,
                                 !.fileInfoBuffer = Append(@, Xor(r.ret, 64))], u)
        ELSE [r EXCEPT !.fileInfoEscape = FALSE, !.state = "ERROR", !.returned = TRUE]))

\* File::write(uint8_t) byte after byte, evaluated half by half.
RECURSIVE fileWriteEach(_, _)
fileWriteEach(n, bytes) ==
    IF bytes = <<>> THEN n
    ELSE IF Len(bytes) = 1 THEN fileWrite(n, bytes[1])
    ELSE Then(fileWriteEach(n, SubSeq(bytes, 1, Len(bytes) \div 2)), LAMBDA n1 :
            fileWriteEach(n1, SubSeq(bytes, Len(bytes) \div 2 + 1, Len(bytes))))

\* The while (_io->available()) loop of RSTATE_READ_ZDATA: every stream byte is
\* written to the file.  The loop is taken one rx buffer at a time: while the
\* buffer holds bytes, available() pulls nothing and read() yields its next byte.
RECURSIVE readZDATA(_)
readZDATA(n) ==
    Then(available(n), LAMBDA a :
      IF a.ret = 0 THEN a
      ELSE readZDATA([fileWriteEach(a, a.rxBuffer)
                         EXCEPT !.rxBuffer = <<>>,
                                !.zBytesTransferred = @ + Len(a.rxBuffer)]))

\* The if/else chain that processes a received header (rxType).
receiverResponse(n) ==
    IF n.rxType = ZRQINIT
    THEN [sendHexHeader(n, ZRINIT, ZERO_FLAGS) EXCEPT !.rState = "AWAIT_HEADER"]
    ELSE IF n.rxType = ZFILE
    THEN [n EXCEPT !.fileInfoBuffer = <<>>, !.fileInfoEscape = FALSE,
                   !.fileInfoAwaitingCRC = FALSE, !.rState = "READ_ZFILE"]
    ELSE IF n.rxType = ZDATA THEN n
    ELSE IF n.rxType = ZEOF THEN sendHexHeader(n, ZRINIT, ZERO_FLAGS)
    ELSE IF n.rxType = ZFIN
    THEN [sendHexHeader(n, ZFIN, ZERO_FLAGS) EXCEPT !.state = "COMPLETE"]
    ELSE n

\* The keepalive at the end of _handleReceiverLoop.
keepalive(n) ==
    IF n.lastAck > KeepaliveMs /\ n.state # "COMPLETE" /\ n.state # "ERROR"
    THEN [sendHexHeader(n, ZRINIT, ZERO_FLAGS) EXCEPT !.lastAck = 0]
    ELSE n

\* The data writing part of _handleReceiverLoop.
receiverData(n, u) ==
    IF n.rState = "READ_ZFILE"
    THEN readZFILE(n, u)
    ELSE IF n.rState = "READ_ZDATA" /\ n.hasFile THEN readZDATA(n)
    ELSE n

\* The header part of _handleReceiverLoop.
receiverHeader(n) ==
    Then(available(n), LAMBDA a :
      IF a.ret = 0 THEN a
      ELSE Then(readHexHeader(a), LAMBDA h :
             IF h.ret = 1
             THEN receiverResponse([h EXCEPT !.lastActivity = 0,
                                             !.hdrs = Append(@, h.rxType)])
             ELSE h))

\* void ZModemEngine::_handleReceiverLoop()
handleReceiverLoop(n, u) ==
    Then(receiverData(receiverHeader(n), u), LAMBDA n2 :
        IF n2.returned THEN n2 ELSE keepalive(n2))

(***************************************************************************)
(* ZModemEngine: the public operations.                                    *)
(***************************************************************************)
\* The value loop() returns for the state it ends in.
loopResult(n) ==
    [n EXCEPT !.ret = IF n.state = "COMPLETE" THEN 1
                      ELSE IF n.state = "ERROR" THEN -1 ELSE 0]

\* A variant of timedOut: the engine never gives up.
timedOutNever(n) == FALSE

\* The timeout test of loop(): millis() - _lastActivity > _timeoutMs.
timedOut(n) == n.lastActivity > n.timeoutMs

\* int ZModemEngine::loop()
engineLoop(n, u) ==
    IF n.state \in {"IDLE", "COMPLETE", "ERROR"} THEN loopResult(n)
    ELSE IF timedOut(n) THEN [n EXCEPT !.state = "ERROR", !.ret = -1]
    ELSE loopResult(IF n.isSender THEN handleSenderLoop(n) ELSE handleReceiverLoop(n, u))

\* void ZModemEngine::abort()
engineAbort(n) ==
    [writeBuf(n, <<ZDLE, ZCAN, ZDLE, ZCAN, ZDLE, ZCAN, ZDLE, ZCAN>>)
        EXCEPT !.state = "ERROR"]

\* void ZModemEngine::setFileStream(File* file, const String& filename, size_t fileSize)
setFileStream(n, filename, fileSize) ==
    [n EXCEPT !.hasFile = TRUE, !.zFilename = filename, !.zFileSize = fileSize,
              !.zBytesTransferred = 0]

\* bool ZModemEngine::send(unsigned long timeout)
engineSend(n, timeout) ==
    IF ~n.hasFile THEN [n EXCEPT !.ret = 0]
    ELSE [n EXCEPT !.isSender = TRUE, !.state = "SEND_ZRQINIT", !.timeoutMs = timeout,
                   !.lastActivity = 0, !.sinceDelivery = 0, !.ret = 1]

\* bool ZModemEngine::receive(unsigned long timeout)
engineReceive(n, timeout) ==
    [sendHexHeader([n EXCEPT !.isSender = FALSE, !.state = "AWAIT_ZRINIT",
                             !.rState = "AWAIT_HEADER", !.timeoutMs = timeout,
                             !.lastActivity = 0, !.sinceDelivery = 0],
                   ZRINIT, ZERO_FLAGS)
        EXCEPT !.ret = 1]

(***************************************************************************)
(* AkitaMeshZmodem: the session coordinator.                               *)
(*   currentState, filename, totalFileSize, bytesTransferred and the file  *)
(*   (fileOpen, fileMode, filePos, openPath).                              *)
(*   zres           the engine state the last loop() acted on              *)
(***************************************************************************)
\* void AkitaMeshZmodem::_resetTransferState()
resetTransferState(n) ==
    engineAbort(reset([(IF n.fileOpen THEN fileClose(n) ELSE n)
                          EXCEPT !.filename = <<>>, !.currentState = "IDLE",
                                 !.totalFileSize = 0, !.bytesTransferred = 0]))

\* void AkitaMeshZmodem::abortTransfer()
abortTransfer(n) == resetTransferState(n)

\* The part of startSend() that follows the opening of the file.
startSendOpened(n) ==
    Then(engineSend(setFileStream([n EXCEPT !.totalFileSize = Len(disk(n))],
                                  n.filename, Len(disk(n))),
                    CfgTimeoutMs),
         LAMBDA n4 :
            IF n4.ret = 1
            THEN [n4 EXCEPT !.currentState = "SENDING", !.bytesTransferred = 0]
            ELSE [resetTransferState(n4) EXCEPT !.ret = 0])

\* A variant of busy: a start is never refused.
busyNever(n) == FALSE

\* The first test of startSend() and of startReceive().
busy(n) == n.currentState # "IDLE"

\* bool AkitaMeshZmodem::startSend(const String& filePath)
startSend(n, filePath) ==
    IF busy(n) THEN [n EXCEPT !.ret = 0]
    ELSE Then(openRead([resetTransferState(n) EXCEPT !.filename = filePath], filePath),
              LAMBDA n2 :
                 IF ~n2.fileOpen THEN [resetTransferState(n2) EXCEPT !.ret = 0]
                 ELSE startSendOpened(n2))

\* bool AkitaMeshZmodem::startReceive(const String& filePath)
startReceive(n, filePath) ==
    IF busy(n) THEN [n EXCEPT !.ret = 0]
    ELSE Then(engineReceive(
                  setFileStream(openWrite([resetTransferState(n) EXCEPT !.filename = filePath],
                                          filePath),
                                filePath, 0),
                  CfgTimeoutMs),
              LAMBDA n3 :
                 IF n3.ret = 1
                 THEN [n3 EXCEPT !.currentState = "RECEIVING", !.totalFileSize = 0,
                                 !.bytesTransferred = 0]
                 ELSE [resetTransferState(n3) EXCEPT !.ret = 0])

\* A variant of transferring that takes over the filename the peer has sent.
transferringRenaming(n) ==
    IF n.currentState = "RECEIVING"
    THEN [n EXCEPT !.totalFileSize = IF @ = 0 THEN n.zFileSize ELSE @,
                   !.filename = IF n.zFilename # <<>> THEN n.zFilename ELSE @]
    ELSE n

\* The TRANSFERRING case of _handleZmodemState(): a receiver takes the file
\* size from the engine once; the filename stays the path that was requested.
transferring(n) ==
    IF n.currentState = "RECEIVING" /\ n.totalFileSize = 0
    THEN [n EXCEPT !.totalFileSize = n.zFileSize]
    ELSE n

\* void AkitaMeshZmodem::_handleZmodemState(ZModem::TransferState zState)
handleZmodemState(n, zState) ==
    LET active == n.currentState \in {"SENDING", "RECEIVING"}
    IN  CASE zState = "COMPLETE" ->
               IF active
               THEN [(IF n.fileOpen THEN fileClose(n) ELSE n) EXCEPT !.currentState = "COMPLETE"]
               ELSE n
          [] zState = "TRANSFERRING" -> transferring(n)
          [] zState = "ERROR" ->
               IF active
               THEN resetTransferState([n EXCEPT !.currentState = "ERROR"])
               ELSE n
          [] OTHER -> n

\* The coordinator's reading of the engine's loop() result.
zStateOf(r) == IF r = 1 THEN "COMPLETE" ELSE IF r = -1 THEN "ERROR" ELSE "TRANSFERRING"

\* AkitaMeshZmodem::TransferState AkitaMeshZmodem::loop()
loop(n, u) ==
    IF n.currentState \in {"IDLE", "COMPLETE", "ERROR"} THEN n
    ELSE Then(engineLoop(n, u), LAMBDA z :
           Then(handleZmodemState([z EXCEPT !.zres = zStateOf(z.ret)], zStateOf(z.ret)),
                LAMBDA n1 :
                   IF n1.fileOpen /\ n1.currentState \in {"SENDING", "RECEIVING"}
                   THEN [n1 EXCEPT !.bytesTransferred = n1.filePos]
                   ELSE n1))

(***************************************************************************)
(* ZmodemModule: the Meshtastic module that owns the coordinator.          *)
(***************************************************************************)
\* void AkitaMeshZmodem::processDataPacket(MeshPacket&): the packet is handed
\* to the shim, which finds it at its next available().
processDataPacket(n, p) == [n EXCEPT !.inq = Append(@, p)]

\* bool ZmodemModule::handleReceived(MeshPacket& packet), for a packet on the
\* data port.
handleReceived(n, p) ==
    IF n.currentState = "RECEIVING"
    THEN [processDataPacket(n, p) EXCEPT !.ret = 1]
    ELSE [n EXCEPT !.ret = 0]

(***************************************************************************)
(* The nodes.  Node A holds the file /a; node B holds no file.             *)
(***************************************************************************)
Nodes == {"A", "B"}

Peer(id) == IF id = "A" THEN "B" ELSE "A"

PathA == <<47, 97>>
PathB == <<47, 98>>
Paths == {PathA, PathB}

\* The length of the file /a of node A.
FileLen == 40

\* The file /a: the bytes 0, 1, 2, ...
FileA == [i \in 1..FileLen |-> (i - 1) % 256]

\* The fields of a node as its constructors leave them, before begin().
Constructed(id) ==
    [rxBuffer |-> <<>>, expectedPacketId |-> 0, txBuffer |-> <<>>, sentPacketId |-> 0,
     maxPacketSize |-> CfgMaxPacketSize, inq |-> <<>>, meshUp |-> TRUE,
     emitted |-> <<>>, sends |-> <<>>, exams |-> <<>>, hdrs |-> <<>>, sentHdrs |-> <<>>,
     written |-> <<>>,
     seqLog |-> <<>>, payLog |-> <<>>, wrLog |-> <<>>, accLog |-> <<>>, accSeqs |-> <<>>,
     sawFail |-> FALSE, payAll |-> <<>>, accAll |-> <<>>, sinceDelivery |-> 0,
     injected |-> 0, starts |-> 0, quiet |-> FALSE,
     ret |-> 0, buf |-> <<>>, rxType |-> 0, rxFlags |-> ZERO_FLAGS, returned |-> FALSE,
     zres |-> "NONE",
     state |-> "IDLE", rState |-> "IDLE", isSender |-> FALSE, timeoutMs |-> 0,
     zFilename |-> <<>>, zFileSize |-> 0, zBytesTransferred |-> 0, hasFile |-> FALSE,
     lastActivity |-> 0, lastSend |-> 0, lastAck |-> 0,
     fileInfoBuffer |-> <<>>, fileInfoEscape |-> FALSE, fileInfoAwaitingCRC |-> FALSE,
     fileOpen |-> FALSE, fileMode |-> "r", filePos |-> 0, openPath |-> PathA,
     files |-> IF id = "A" THEN {PathA} ELSE {},
     fs |-> [q \in Paths |-> IF id = "A" /\ q = PathA THEN FileA ELSE <<>>],
     currentState |-> "IDLE", filename |-> <<>>, totalFileSize |-> 0,
     bytesTransferred |-> 0]

\* void AkitaMeshZmodem::begin(...): allocates the shim, binds the engine to it
\* and resets the transfer state.
begin(n) == resetTransferState(n)

\* The logs of the current step and the locals of the handlers start empty.
Clear(n) ==
    [n EXCEPT !.emitted = <<>>, !.sends = <<>>, !.exams = <<>>, !.hdrs = <<>>,
              !.sentHdrs = <<>>, !.written = <<>>, !.ret = 0, !.buf = <<>>, !.rxType = 0,
              !.rxFlags = ZERO_FLAGS, !.returned = FALSE, !.zres = "NONE"]

\* The age of a time stamp after TickMs more milliseconds.  Every limit an age
\* is compared with is below AgeCap, so ages above AgeCap need not be told apart.
Age(a) == IF a + TickMs > AgeCap THEN AgeCap ELSE a + TickMs

\* millis() advances by TickMs.
tick(n) ==
    [Clear(n) EXCEPT !.lastActivity = Age(@), !.lastSend = Age(@), !.lastAck = Age(@),
                     !.sinceDelivery = Age(@), !.quiet = FALSE]

\* A loop() call has taken the node from before to after.  The node is quiet
\* when the call has changed nothing: until something else happens, further
\* calls change nothing either.
Polled(before, after) == [after EXCEPT !.quiet = (Clear(after) = Clear(before))]

\* The value an uninitialised read may yield.
Stale == {0, 7}

Init ==
    /\ node = [id \in Nodes |-> Clear(begin(Constructed(id)))]
    /\ act = [op |-> "begin", id |-> "A", arg |-> <<>>]

(***************************************************************************)
(* What the environments below share: the start of a transfer, the frames  *)
(* a peer sends, the packets the mesh hands to a node.                     *)
(***************************************************************************)
\* A start call that is not rejected opens a new transfer.
Started(n, after) ==
    [after EXCEPT !.starts = IF n.currentState = "IDLE" THEN @ + 1 ELSE @,
                  !.injected = IF n.currentState = "IDLE" THEN 0 ELSE @,
                  !.quiet = IF n.currentState = "IDLE" THEN FALSE ELSE @]

AbortSeq == <<ZDLE, ZCAN, ZDLE, ZCAN, ZDLE, ZCAN, ZDLE, ZCAN>>

\* The file a peer of node A announces and sends.
PeerFile == <<1, 2, 3>>

\* The frames of a peer, as the emission operators above write them.
SubpacketBytes(data, endFrame) ==
    LET term == IF endFrame THEN ZCRCE ELSE ZCRCG
        crc == updcrc(term, crcOf(data, 0))
    IN  escapeAll(data) \o <<ZDLE, term>> \o <<crc \div 256, crc % 256>>

BinHeaderBytes(type, flags) ==
    LET crc == headerCrc(type, flags)
    IN  <<ZPAD, ZDLE, ZBIN, type>> \o flags \o <<crc \div 256, crc % 256>>

\* What a receiving peer emits first: the abort sequence of its reset, ZRINIT.
PeerFirstRx == AbortSeq \o HexHeaderBytes(ZRINIT, ZERO_FLAGS)
\* ZRINIT and ZRPOS(1), each followed by a ZACK so that the reader is left with
\* an empty buffer.
RinitAck == HexHeaderBytes(ZRINIT, ZERO_FLAGS) \o HexHeaderBytes(ZACK, ZERO_FLAGS)
RposAck == HexHeaderBytes(ZRPOS, posFlags(1)) \o HexHeaderBytes(ZACK, ZERO_FLAGS)
\* A ZFILE frame whose header is a HEX header.
ZfileFrame ==
    HexHeaderBytes(ZFILE, ZERO_FLAGS)
    \o SubpacketBytes(<<120, 0>> \o DecDigits(Len(PeerFile)) \o <<0>>, TRUE)
\* The ZDATA frame of the whole of PeerFile, as STATE_SEND_ZDATA writes it.
DataFrame == BinHeaderBytes(ZDATA, posFlags(0)) \o SubpacketBytes(PeerFile, TRUE)
FinHdr == HexHeaderBytes(ZFIN, ZERO_FLAGS)
\* A payload one byte longer than the rx buffer.
Oversize == [i \in 1..(AKZ_STREAM_RX_BUFFER_SIZE + 1) |-> 0]

Payloads == {PeerFirstRx, RinitAck, RposAck, ZfileFrame, DataFrame, FinHdr}

Framed(id, q, pl) == <<id, q \div 256, q % 256>> \o pl

\* The packets the mesh may hand to a node that expects sequence number e:
\* a frame under e, a data frame under the sequence number before or after e,
\* a packet of another protocol, a packet too short to carry the header, a
\* packet too long for the rx buffer.
Packets(e) ==
    {Framed(AKZ_PACKET_IDENTIFIER, e, pl) : pl \in Payloads}
    \cup {Framed(AKZ_PACKET_IDENTIFIER, q, DataFrame) : q \in {q \in {e - 1, e + 1} : q >= 0}}
    \cup {Framed(1, e, FinHdr), <<AKZ_PACKET_IDENTIFIER, 0>>,
          Framed(AKZ_PACKET_IDENTIFIER, e, Oversize)}

(***************************************************************************)
(* Spec: the application of node A.  It calls startSend, startReceive,     *)
(* abortTransfer and loop in any order, time passes, and the mesh accepts  *)
(* or refuses the packets of the node.  No peer answers.                   *)
(***************************************************************************)
\* The number of transfers the application starts.
MaxStarts == 2

CanStart(n) == n.currentState # "IDLE" \/ n.starts < MaxStarts

StartSend ==
    \E path \in Paths :
        /\ CanStart(node["A"])
        /\ node' = [node EXCEPT !["A"] = Started(@, startSend(Clear(@), path))]
        /\ act' = [op |-> "startSend", id |-> "A", arg |-> path]

StartReceive ==
    \E path \in {PathB} :
        /\ CanStart(node["A"])
        /\ node' = [node EXCEPT !["A"] = Started(@, startReceive(Clear(@), path))]
        /\ act' = [op |-> "startReceive", id |-> "A", arg |-> path]

Poll ==
    \E u \in Stale :
        /\ node' = [node EXCEPT !["A"] = Polled(@, loop(Clear(@), u))]
        /\ act' = [op |-> "loop", id |-> "A", arg |-> <<>>]

\* arg tells a call that follows another abortTransfer call at once (<<1>>)
\* from a first call.
Abort ==
    /\ node' = [node EXCEPT !["A"] = [abortTransfer(Clear(@)) EXCEPT !.quiet = FALSE]]
    /\ act' = [op |-> "abortTransfer", id |-> "A",
               arg |-> IF act.op = "abortTransfer" /\ act.arg = <<>> THEN <<1>> ELSE <<>>]

Tick ==
    /\ node' = [node EXCEPT !["A"] = tick(@)]
    /\ act' = [op |-> "tick", id |-> "A", arg |-> <<>>]

MeshDown ==
    /\ node["A"].meshUp
    /\ node' = [node EXCEPT !["A"] = [Clear(@) EXCEPT !.meshUp = FALSE, !.quiet = FALSE]]
    /\ act' = [op |-> "meshDown", id |-> "A", arg |-> <<>>]

MeshUp ==
    /\ ~node["A"].meshUp
    /\ node' = [node EXCEPT !["A"] = [Clear(@) EXCEPT !.meshUp = TRUE, !.quiet = FALSE]]
    /\ act' = [op |-> "meshUp", id |-> "A", arg |-> <<>>]

Next ==
    \/ StartSend
    \/ StartReceive
    \/ Poll
    \/ Abort
    \/ Tick
    \/ MeshDown
    \/ MeshUp

Spec == Init /\ [][Next]_vars

(***************************************************************************)
(* SpecNet: one transfer of node A against an arbitrary mesh.  While the   *)
(* transfer runs the mesh hands the node packets of Packets, one at a      *)
(* time.  LiveNet is the same transfer of an application that calls loop() *)
(* again and again, and much more often than once in TickMs milliseconds:  *)
(* time passes only when the node is quiet.                                *)
(***************************************************************************)
\* The number of packets the mesh hands to node A during the transfer.
MaxInject == 2

NetStartSend ==
    /\ node["A"].starts = 0
    /\ node' = [node EXCEPT !["A"] = Started(@, startSend(Clear(@), PathA))]
    /\ act' = [op |-> "startSend", id |-> "A", arg |-> PathA]

NetStartReceive ==
    /\ node["A"].starts = 0
    /\ node' = [node EXCEPT !["A"] = Started(@, startReceive(Clear(@), PathB))]
    /\ act' = [op |-> "startReceive", id |-> "A", arg |-> PathB]

Inject ==
    /\ node["A"].inq = <<>>
    /\ node["A"].currentState \in {"SENDING", "RECEIVING"}
    /\ node["A"].injected < MaxInject
    /\ \E p \in Packets(node["A"].expectedPacketId) :
        /\ node' = [node EXCEPT !["A"] = [Clear(@) EXCEPT !.inq = <<p>>, !.injected = @ + 1,
                                                          !.quiet = FALSE]]
        /\ act' = [op |-> "inject", id |-> "A", arg |-> p]

NextNet ==
    \/ NetStartSend
    \/ NetStartReceive
    \/ Poll
    \/ Tick
    \/ Inject

SpecNet == Init /\ [][NextNet]_vars

QuietTick ==
    /\ node["A"].quiet
    /\ node' = [node EXCEPT !["A"] = tick(@)]
    /\ act' = [op |-> "tick", id |-> "A", arg |-> <<>>]

NextLive ==
    \/ NetStartSend
    \/ NetStartReceive
    \/ Poll
    \/ QuietTick
    \/ Inject

LiveNet == Init /\ [][NextLive]_vars /\ WF_vars(QuietTick) /\ []<><<Poll>>_vars

(***************************************************************************)
(* SpecTx: one sending transfer of node A on a mesh that refuses packets   *)
(* at times, with a peer that answers ZRINIT and ZRPOS.                    *)
(***************************************************************************)
\* The number of answers of the peer.
MaxAnswers == 2

Answer ==
    /\ node["A"].inq = <<>>
    /\ node["A"].currentState = "SENDING"
    /\ node["A"].injected < MaxAnswers
    /\ \E pl \in {RinitAck, RposAck} :
        /\ node' = [node EXCEPT !["A"] =
                      [Clear(@) EXCEPT !.inq = <<Framed(AKZ_PACKET_IDENTIFIER,
                                                        node["A"].expectedPacketId, pl)>>,
                                       !.injected = @ + 1, !.quiet = FALSE]]
        /\ act' = [op |-> "answer", id |-> "A", arg |-> pl]

NextTx ==
    \/ NetStartSend
    \/ Poll
    \/ Tick
    \/ MeshDown
    \/ MeshUp
    \/ Answer

SpecTx == Init /\ [][NextTx]_vars

(***************************************************************************)
(* Pair: node A sends /a, node B receives into /b, and the mesh hands      *)
(* every packet a node emits to the other node, in order, Copies times.    *)
(* The nodes are polled much more often than once in TickMs milliseconds:  *)
(* time passes only when both nodes are quiet.  FairPair is Pair with both *)
(* nodes polled again and again and a clock that keeps running.            *)
(***************************************************************************)
RECURSIVE Copies(_, _)
Copies(ds, k) ==
    IF ds = <<>> THEN <<>> ELSE [i \in 1..k |-> Head(ds)] \o Copies(Tail(ds), k)

\* Node id has taken a step that leaves it as n2: the packets it has emitted
\* in the step are queued for its peer.
Deliver(id, n2, k) ==
    [node EXCEPT ![id] = n2,
                 ![Peer(id)] = [Clear(@) EXCEPT !.inq = @ \o Copies(n2.emitted, k),
                                                !.quiet = @ /\ n2.emitted = <<>>]]

PairStartSend(k) ==
    /\ node["A"].starts = 0
    /\ node' = Deliver("A", Started(node["A"], startSend(Clear(node["A"]), PathA)), k)
    /\ act' = [op |-> "startSend", id |-> "A", arg |-> PathA]

PairStartReceive(k) ==
    /\ node["B"].starts = 0
    /\ node' = Deliver("B", Started(node["B"], startReceive(Clear(node["B"]), PathB)), k)
    /\ act' = [op |-> "startReceive", id |-> "B", arg |-> PathB]

PairPoll(id, k) ==
    \E u \in Stale :
        /\ node' = Deliver(id, Polled(node[id], loop(Clear(node[id]), u)), k)
        /\ act' = [op |-> "loop", id |-> id, arg |-> <<>>]

PairTick ==
    /\ \A id \in Nodes : node[id].quiet
    /\ node' = [id \in Nodes |-> tick(node[id])]
    /\ act' = [op |-> "tick", id |-> "A", arg |-> <<>>]

NextPair ==
    \/ PairStartSend(1)
    \/ PairStartReceive(1)
    \/ PairPoll("A", 1)
    \/ PairPoll("B", 1)
    \/ PairTick

Pair == Init /\ [][NextPair]_vars

FairPair ==
    /\ Pair
    /\ WF_vars(PairTick)
    /\ []<><<PairPoll("A", 1)>>_vars
    /\ []<><<PairPoll("B", 1)>>_vars

(***************************************************************************)
(* Twin: two runs of one receiving transfer, side by side.  Nodes A and B  *)
(* take the same calls at the same times and are offered the same packets; *)
(* the mesh of A delivers a packet once, the mesh of B delivers it twice,  *)
(* the second copy right after the first.                                  *)
(***************************************************************************)
TwinStartReceive ==
    /\ \A id \in Nodes : node[id].starts = 0
    /\ node' = [id \in Nodes |-> Started(node[id], startReceive(Clear(node[id]), PathB))]
    /\ act' = [op |-> "startReceive", id |-> "A", arg |-> PathB]

TwinPoll ==
    \E u \in Stale :
        /\ node' = [id \in Nodes |-> loop(Clear(node[id]), u)]
        /\ act' = [op |-> "loop", id |-> "A", arg |-> <<>>]

TwinInject ==
    /\ \A id \in Nodes : node[id].inq = <<>> /\ node[id].currentState = "RECEIVING"
    /\ node["A"].injected < MaxInject
    /\ \E pl \in Payloads :
        /\ node' = [id \in Nodes |->
                      [Clear(node[id])
                          EXCEPT !.inq = Copies(<<Framed(AKZ_PACKET_IDENTIFIER,
                                                         node[id].expectedPacketId, pl)>>,
                                                IF id = "A" THEN 1 ELSE 2),
                                 !.injected = @ + 1]]
        /\ act' = [op |-> "inject", id |-> "A", arg |-> pl]

TwinTick ==
    /\ node' = [id \in Nodes |-> tick(node[id])]
    /\ act' = [op |-> "tick", id |-> "A", arg |-> <<>>]

NextTwin ==
    \/ TwinStartReceive
    \/ TwinPoll
    \/ TwinTick
    \/ TwinInject

Twin == Init /\ [][NextTwin]_vars


(***************************************************************************)
(* SpecModule: node A under its ZmodemModule.  The application starts      *)
(* transfers, at most MaxStarts of them; the packets that arrive on the    *)
(* data port pass through handleReceived(), one at a time, at most         *)
(* MaxArrivals of them.                                                    *)
(***************************************************************************)
\* A data frame and a ZFIN header damaged on the way: the last CRC byte, the
\* last CRC character differs in one bit.
BadDataFrame == [DataFrame EXCEPT ![Len(DataFrame)] = Xor(@, 1)]
BadFinHdr == [FinHdr EXCEPT ![Len(FinHdr) - 2] = Xor(@, 1)]

ModPayloads == {ZfileFrame, DataFrame, BadDataFrame, FinHdr, BadFinHdr, AbortSeq}

\* The number of packets that arrive on the data port.
MaxArrivals == 2

\* A start call of SpecModule: the arrivals are counted over the whole run.
ModStarted(n, after) == [Started(n, after) EXCEPT !.injected = n.injected]

ModStartSend ==
    /\ CanStart(node["A"])
    /\ node' = [node EXCEPT !["A"] = ModStarted(@, startSend(Clear(@), PathA))]
    /\ act' = [op |-> "startSend", id |-> "A", arg |-> PathA]

ModStartReceive ==
    /\ CanStart(node["A"])
    /\ node' = [node EXCEPT !["A"] = ModStarted(@, startReceive(Clear(@), PathB))]
    /\ act' = [op |-> "startReceive", id |-> "A", arg |-> PathB]

HandleReceived ==
    /\ node["A"].inq = <<>>
    /\ node["A"].injected < MaxArrivals
    /\ \E pl \in ModPayloads :
        LET p == Framed(AKZ_PACKET_IDENTIFIER, node["A"].expectedPacketId, pl)
        IN  /\ node' = [node EXCEPT !["A"] = [handleReceived(Clear(@), p)
                                                EXCEPT !.injected = @ + 1, !.quiet = FALSE]]
            /\ act' = [op |-> "handleReceived", id |-> "A", arg |-> p]

NextModule ==
    \/ ModStartSend
    \/ ModStartReceive
    \/ Poll
    \/ Tick
    \/ HandleReceived

SpecModule == Init /\ [][NextModule]_vars

(***************************************************************************)
(* SpecFile: one sending transfer of node A, whose file /a has BigLen      *)
(* bytes (three chunks), on a mesh that takes every packet, with a peer    *)
(* that answers ZRINIT, ZRPOS and ZFIN.  A ZRPOS answer is a datagram with *)
(* two ZRPOS headers: the first acknowledges the file, the second asks for *)
(* a position again and is read once the sender is streaming.  The node is *)
(* polled much more often than once in TickMs milliseconds.                *)
(***************************************************************************)
\* The length of the file /a in SpecFile: two full chunks and one byte.
BigLen == 257
\* A position inside the first chunk.
MidPos == 100

BigFile == [i \in 1..BigLen |-> (i - 1) % 256]

\* The positions the peer asks for: a position inside the file, a position
\* past its end.
Rewinds == {MidPos, BigLen + 1}

Zrpos2(p, q) ==
    HexHeaderBytes(ZRPOS, posFlags(p)) \o HexHeaderBytes(ZRPOS, posFlags(q))
    \o HexHeaderBytes(ZACK, ZERO_FLAGS)

Answers == {RinitAck, FinHdr} \cup {Zrpos2(0, q) : q \in Rewinds}

\* The number of answers of the peer in SpecFile.
MaxReplies == 4

InitFile ==
    /\ node = [id \in Nodes |->
                 Clear(begin(IF id = "A"
                             THEN [Constructed(id) EXCEPT !.fs[PathA] = BigFile]
                             ELSE Constructed(id)))]
    /\ act = [op |-> "begin", id |-> "A", arg |-> <<>>]

\* The mesh hands the node an answer once the node has read the one before.
Reply ==
    /\ node["A"].inq = <<>>
    /\ node["A"].rxBuffer = <<>>
    /\ node["A"].currentState = "SENDING"
    /\ node["A"].injected < MaxReplies
    /\ \E pl \in Answers :
        /\ node' = [node EXCEPT !["A"] =
                      [Clear(@) EXCEPT !.inq = <<Framed(AKZ_PACKET_IDENTIFIER,
                                                        node["A"].expectedPacketId, pl)>>,
                                       !.injected = @ + 1, !.quiet = FALSE]]
        /\ act' = [op |-> "reply", id |-> "A", arg |-> pl]

\* A loop() call of the sender, which reads no uninitialised value.
FilePoll ==
    /\ node' = [node EXCEPT !["A"] = Polled(@, loop(Clear(@), 0))]
    /\ act' = [op |-> "loop", id |-> "A", arg |-> <<>>]

NextFile ==
    \/ NetStartSend
    \/ FilePoll
    \/ QuietTick
    \/ Reply

SpecFile == InitFile /\ [][NextFile]_vars

(***************************************************************************)
(* SpecRx: one receiving transfer of node A.  The mesh hands the node, one *)
(* at a time, datagrams with the frames of a sender: a ZFILE frame, whole, *)
(* cut before its CRC, or with a file info that is too long; ZDATA frames  *)
(* and ZEOF headers for the position the receiver is at and for another    *)
(* one.  The node is polled much more often than once in TickMs            *)
(* milliseconds.                                                           *)
(***************************************************************************)
\* A position the receiver is not at.
OtherPos == 5
\* The length of a file info that does not fit the file-info buffer.
LongLen == 130

\* The ZFILE frame without its two CRC bytes, and the two CRC bytes.
ZfileHead == SubSeq(ZfileFrame, 1, Len(ZfileFrame) - 2)
ZfileCrc == SubSeq(ZfileFrame, Len(ZfileFrame) - 1, Len(ZfileFrame))
\* A ZFILE header followed by LongLen bytes of a file name.
LongInfo == HexHeaderBytes(ZFILE, ZERO_FLAGS) \o [i \in 1..LongLen |-> 120]
\* A ZFILE header followed by a file name that fills the file-info buffer and
\* an escaped byte.
LongEscInfo ==
    HexHeaderBytes(ZFILE, ZERO_FLAGS) \o [i \in 1..(LongLen - 4) |-> 120] \o <<ZDLE, 88>>
\* A ZDATA frame for position p whose header is a HEX header, a ZEOF header.
HexDataFrame(p) == HexHeaderBytes(ZDATA, posFlags(p)) \o SubpacketBytes(PeerFile, TRUE)
EofHdr(p) == HexHeaderBytes(ZEOF, posFlags(p))

RxPayloads ==
    {ZfileFrame, ZfileHead, ZfileCrc, LongInfo, LongEscInfo}
    \cup {HexDataFrame(p) : p \in {0, OtherPos}}
    \cup {EofHdr(p) : p \in {0, OtherPos}}

\* The number of datagrams the mesh hands to the node in SpecRx.
MaxRx == 3

\* The mesh hands the node a datagram once the node has read the one before.
Arrive ==
    /\ node["A"].inq = <<>>
    /\ node["A"].rxBuffer = <<>>
    /\ node["A"].currentState = "RECEIVING"
    /\ node["A"].injected < MaxRx
    /\ \E pl \in RxPayloads :
        /\ node' = [node EXCEPT !["A"] =
                      [Clear(@) EXCEPT !.inq = <<Framed(AKZ_PACKET_IDENTIFIER,
                                                        node["A"].expectedPacketId, pl)>>,
                                       !.injected = @ + 1, !.quiet = FALSE]]
        /\ act' = [op |-> "arrive", id |-> "A", arg |-> pl]

NextRx ==
    \/ NetStartReceive
    \/ Poll
    \/ QuietTick
    \/ Arrive

SpecRx == Init /\ [][NextRx]_vars

(***************************************************************************)
(* SpecEsc: the escape codec of the sender against the un-escaping of the  *)
(* receiver.  Node A is started as a receiver and handed a ZFILE header;   *)
(* then the mesh hands it, one datagram at a time, data bytes as           *)
(* _sendDataSubpacket writes them, and the node is polled.                 *)
(***************************************************************************)
\* The values of a byte.
Bytes == 0..255
\* The number of data bytes the node is handed in SpecEsc.
MaxFed == 1

EscHeader ==
    /\ node["A"].currentState = "RECEIVING"
    /\ node["A"].rState = "AWAIT_HEADER"
    /\ node["A"].inq = <<>>
    /\ node["A"].injected = 0
    /\ node' = [node EXCEPT !["A"] =
                  [Clear(@) EXCEPT !.inq = <<Framed(AKZ_PACKET_IDENTIFIER,
                                                    node["A"].expectedPacketId,
                                                    HexHeaderBytes(ZFILE, ZERO_FLAGS))>>,
                                   !.injected = 1, !.quiet = FALSE]]
    /\ act' = [op |-> "header", id |-> "A", arg |-> <<>>]

Feed ==
    /\ node["A"].currentState = "RECEIVING"
    /\ node["A"].rState = "READ_ZFILE"
    /\ node["A"].inq = <<>>
    /\ node["A"].rxBuffer = <<>>
    /\ node["A"].injected <= MaxFed
    /\ \E b \in Bytes :
        /\ node' = [node EXCEPT !["A"] =
                      [Clear(@) EXCEPT !.inq = <<Framed(AKZ_PACKET_IDENTIFIER,
                                                        node["A"].expectedPacketId,
                                                        escapeByte(b))>>,
                                       !.injected = @ + 1, !.quiet = FALSE]]
        /\ act' = [op |-> "feed", id |-> "A", arg |-> <<b>>]

NextEsc ==
    \/ NetStartReceive
    \/ EscHeader
    \/ FilePoll
    \/ Feed

SpecEsc == Init /\ [][NextEsc]_vars

(***************************************************************************)
(* SpecLoss: the two nodes of Pair on a mesh that loses packets: a packet  *)
(* queued for a node may vanish before the node takes it.                  *)
(***************************************************************************)
Lose ==
    \E id \in Nodes :
        /\ node[id].inq # <<>>
        /\ node' = [node EXCEPT ![id] = [Clear(@) EXCEPT !.inq = Tail(@), !.quiet = FALSE]]
        /\ act' = [op |-> "lose", id |-> id, arg |-> <<>>]

NextLoss ==
    \/ PairStartSend(1)
    \/ PairStartReceive(1)
    \/ PairPoll("A", 1)
    \/ PairPoll("B", 1)
    \/ PairTick
    \/ Lose

SpecLoss == Init /\ [][NextLoss]_vars
(***************************************************************************)
(* The properties.                                                         *)
(***************************************************************************)
IsPrefix(s, t) == Len(s) <= Len(t) /\ s = SubSeq(t, 1, Len(s))

NonTerminal(n) == n.state \notin {"IDLE", "COMPLETE", "ERROR"}

\* What available() has recorded of a packet it examined.
SeqOf(p) == p[2] * 256 + p[3]
Matches(e) ==
    /\ Len(e.packet) >= 3
    /\ e.packet[1] = AKZ_PACKET_IDENTIFIER
    /\ SeqOf(e.packet) = e.expBefore
Examined(e, ok) ==
    /\ e.accepted <=> ok
    /\ e.accepted => /\ e.rxAfter = SubSeq(e.packet, 4, Len(e.packet))
                     /\ e.expAfter = (e.expBefore + 1) % 65536
    /\ ~e.accepted => /\ e.rxAfter = <<>>
                      /\ e.expAfter = e.expBefore

\* Node A is sending and node B is receiving.
C1_BothStarted ==
    node["A"].currentState = "SENDING" /\ node["B"].currentState = "RECEIVING"
\* Both coordinators are in COMPLETE and the file of B equals the file of A.
C1_BothComplete ==
    /\ node["A"].currentState = "COMPLETE"
    /\ node["B"].currentState = "COMPLETE"
    /\ node["B"].fs[PathB] = node["A"].fs[PathA]
\* C1 (happy path): under FairPair, once node A is sending and node B is
\* receiving, both coordinators eventually are in COMPLETE and the file of B
\* equals the file of A.
C1_HappyPath == C1_BothStarted ~> C1_BothComplete

\* C2 (in-order delivery): whatever packets the mesh hands to the receiving
\* node A (SpecNet), the bytes in its file /b are a prefix of the file its
\* peer sends.
C2_FilePrefix == IsPrefix(node["A"].fs[PathB], PeerFile)

\* C3 (TX sequence monotonicity): the sequence numbers of the packets node A
\* has emitted since the last reset of its shim are 0, 1, 2, ... in emission
\* order, whatever the mesh refuses and whatever the peer answers (SpecTx).
C3_TxSequence ==
    \A i \in 1..Len(node["A"].seqLog) : node["A"].seqLog[i] = i - 1
\* Three packets are out, a send has failed on the way, and a ZRPOS has been
\* answered.
C3_Witness ==
    /\ Len(node["A"].seqLog) >= 3
    /\ node["A"].sawFail
    /\ node["A"].state = "SEND_ZEOF"

\* C4 (RX exact-match acceptance), with the size of the rx buffer: a packet
\* is accepted iff it has at least 3 bytes, its byte 0 is the identifier, its
\* sequence number is the expected one and its payload fits the rx buffer;
\* then its bytes 3.. become the rx buffer and the expected number grows by
\* one; any other packet leaves the expected number alone and delivers nothing.
C4_Acceptance ==
    \A i \in 1..Len(node["A"].exams) :
        Examined(node["A"].exams[i],
                 Matches(node["A"].exams[i])
                 /\ Len(node["A"].exams[i].packet) - 3 <= AKZ_STREAM_RX_BUFFER_SIZE)
\* C4 as the claim words it: length, identifier and sequence number decide.
C4_AcceptanceAsStated ==
    \A i \in 1..Len(node["A"].exams) :
        Examined(node["A"].exams[i], Matches(node["A"].exams[i]))
\* A second packet has been accepted.
C4_Witness ==
    \E i \in 1..Len(node["A"].exams) :
        /\ node["A"].exams[i].accepted
        /\ node["A"].exams[i].expBefore = 1
        /\ node["A"].exams[i].rxAfter # <<>>

\* C5 (failed send is not advanced): every call of sendPacket() in which the
\* mesh refuses the packet leaves the tx buffer and the sequence number as
\* they were at the call (Spec).
C5_FailedSend ==
    \A i \in 1..Len(node["A"].sends) :
        ~node["A"].sends[i].ok =>
            /\ node["A"].sends[i].after = node["A"].sends[i].before
            /\ node["A"].sends[i].seqAfter = node["A"].sends[i].seqBefore

\* The receiving node A, reading file data, has been handed a packet whose
\* sequence number is above the one it expects: a packet before it was dropped.
C6_GapInData ==
    /\ node["A"].rState = "READ_ZDATA"
    /\ node["A"].currentState = "RECEIVING"
    /\ \E i \in 1..Len(node["A"].exams) :
          /\ Len(node["A"].exams[i].packet) >= 3
          /\ node["A"].exams[i].packet[1] = AKZ_PACKET_IDENTIFIER
          /\ SeqOf(node["A"].exams[i].packet) > node["A"].exams[i].expBefore
\* The call just made has sent a ZRPOS header.
C6_ZrposSent == \E i \in 1..Len(node["A"].sentHdrs) : node["A"].sentHdrs[i] = ZRPOS
\* C6 (single-drop recovery): under LiveNet, when the receiving node A, reading
\* file data, is handed a data packet whose sequence number is above the one
\* it expects (a packet before it was dropped), it eventually sends ZRPOS.
C6_DropRecovery == C6_GapInData ~> C6_ZrposSent

\* A node without what belongs to its mesh (the packets still queued, the
\* record of the packets examined, the time since a packet was last taken
\* from the queue) and without the file /a, which only node A starts with.
Run(n) ==
    [n EXCEPT !.inq = <<>>, !.exams = <<>>, !.sinceDelivery = 0,
              !.files = @ \ {PathA}, !.fs = [@ EXCEPT ![PathA] = <<>>]]
\* C7 (duplicate tolerance): the run whose mesh delivers every packet twice
\* (node B of Twin) and the run whose mesh delivers it once (node A) agree,
\* after every step, on everything but the packets still queued: the shim's
\* buffers and sequence numbers, the bytes handed to the engine, the engine,
\* the coordinator and the file.
C7_SameRun == Run(node["A"]) = Run(node["B"])
\* Node B has turned a second copy away while its file holds bytes.
C7_Witness ==
    /\ node["B"].fs[PathB] # <<>>
    /\ node["B"].accSeqs = <<0, 1>>
    /\ \E i \in 1..Len(node["B"].exams) :
          /\ ~node["B"].exams[i].accepted
          /\ SeqOf(node["B"].exams[i].packet) < node["B"].exams[i].expBefore

\* C8 (timeout liveness), with the clock the engine keeps: a loop() call made
\* while the engine is in a non-terminal state and more than the timeout
\* after the engine last parsed a header (or was started) ends with the
\* engine reporting the error (SpecNet).
C8_Timeout ==
    [][(/\ act'.op = "loop"
        /\ node["A"].currentState \in {"SENDING", "RECEIVING"}
        /\ NonTerminal(node["A"])
        /\ node["A"].lastActivity > node["A"].timeoutMs)
       => (node'["A"].zres = "ERROR" /\ node'["A"].state = "ERROR")]_vars
\* C8 as the claim words it: the time since the mesh last handed the node a
\* packet decides.
C8_TimeoutAsStated ==
    [][(/\ act'.op = "loop"
        /\ node["A"].currentState \in {"SENDING", "RECEIVING"}
        /\ NonTerminal(node["A"])
        /\ node["A"].sinceDelivery > node["A"].timeoutMs)
       => (node'["A"].zres = "ERROR" /\ node'["A"].state = "ERROR")]_vars
\* A loop() call of a sender has ended with the error, no header parsed.
C8_Witness ==
    /\ act.op = "loop"
    /\ node["A"].zres = "ERROR"
    /\ node["A"].isSender
    /\ node["A"].hdrs = <<>>

\* C9 (timeout outcome at the coordinator): after a loop() call in which the
\* engine has reported an error, the coordinator's state is ERROR and the
\* transfer file is closed (Spec).
C9_ErrorReported ==
    (act.op = "loop" /\ node["A"].zres = "ERROR")
        => (node["A"].currentState = "ERROR" /\ ~node["A"].fileOpen)

Left(n) == [n EXCEPT !.written = <<>>]
\* C11 (idempotent abort): an abortTransfer() call that follows another at
\* once leaves the node as the first call left it and writes no byte to the
\* stream (Spec).
C11_SecondAbort ==
    [][(act.op = "abortTransfer" /\ act'.op = "abortTransfer")
       => (Left(node'["A"]) = Left(node["A"]) /\ node'["A"].written = <<>>)]_vars

\* C12 (abort outcome): an abortTransfer() call on a coordinator that is
\* SENDING or RECEIVING leaves it in ERROR with the transfer file closed, and
\* has written the eight bytes ZDLE, ZCAN x 4 to the stream (Spec).
C12_AbortOutcome ==
    [][(act'.op = "abortTransfer" /\ node["A"].currentState \in {"SENDING", "RECEIVING"})
       => /\ node'["A"].currentState = "ERROR"
          /\ ~node'["A"].fileOpen
          /\ node'["A"].written = AbortSeq]_vars
\* C13 (session reuse): a startSend() or startReceive() call on a coordinator
\* whose transfer has ended (it is neither SENDING nor RECEIVING) is accepted
\* and starts from zeroed counters and a reset shim (SpecModule).
C13_Reuse ==
    [][(/\ act'.op \in {"startSend", "startReceive"}
        /\ node["A"].currentState \notin {"SENDING", "RECEIVING"})
       => /\ node'["A"].ret = 1
          /\ node'["A"].currentState \in {"SENDING", "RECEIVING"}
          /\ node'["A"].bytesTransferred = 0
          /\ node'["A"].expectedPacketId = 0]_vars

\* C14 (complete means whole file): a coordinator in COMPLETE has transferred
\* as many bytes as the file has (SpecModule).
C14_CompleteWhole ==
    node["A"].currentState = "COMPLETE"
        => node["A"].bytesTransferred = node["A"].totalFileSize

\* C15 (data-port forwarding): a packet that arrives on the data port while
\* the coordinator is SENDING or RECEIVING is handed to the shim (SpecModule).
C15_Forwarded ==
    [][(/\ act'.op = "handleReceived"
        /\ node["A"].currentState \in {"SENDING", "RECEIVING"})
       => node'["A"].inq = Append(node["A"].inq, act'.arg)]_vars

\* C16 (peer abort): a loop() call made while the engine is in a non-terminal
\* state and the abort sequence of the peer is the unread input of the stream
\* ends with the engine in ERROR (SpecModule).
C16_PeerAbort ==
    [][(/\ act'.op = "loop"
        /\ node["A"].currentState \in {"SENDING", "RECEIVING"}
        /\ NonTerminal(node["A"])
        /\ node["A"].rxBuffer = AbortSeq)
       => node'["A"].zres = "ERROR"]_vars
\* The payloads the shim has accepted during the step.
AcceptedNow(n) ==
    {SubSeq(n.exams[i].packet, 4, Len(n.exams[i].packet)) :
        i \in {j \in 1..Len(n.exams) : n.exams[j].accepted}}

\* C17 (filename trust): a loop() call of a RECEIVING coordinator in which the
\* engine reads a ZFILE header leaves the coordinator's filename and its open
\* file as startReceive() set them, and changes no file but that one
\* (SpecModule).
C17_FilenameTrust ==
    [][(/\ act'.op = "loop"
        /\ node["A"].currentState = "RECEIVING"
        /\ \E i \in 1..Len(node'["A"].hdrs) : node'["A"].hdrs[i] = ZFILE)
       => /\ node'["A"].filename = node["A"].filename
          /\ node'["A"].fileOpen
          /\ node'["A"].openPath = node["A"].openPath
          /\ node'["A"].openPath = node'["A"].filename
          /\ \A q \in Paths \ {node["A"].openPath} :
                node'["A"].fs[q] = node["A"].fs[q]]_vars
\* A loop() call has read a ZFILE frame whose filename is not the path the
\* receiver was started with.
C17_Witness ==
    /\ act.op = "loop"
    /\ node["A"].currentState = "RECEIVING"
    /\ \E i \in 1..Len(node["A"].hdrs) : node["A"].hdrs[i] = ZFILE
    /\ node["A"].rState = "READ_ZDATA"
    /\ node["A"].zFilename # <<>>
    /\ node["A"].zFilename # node["A"].filename

\* C18 (commit only after CRC): a loop() call in which a receiver reading
\* file data takes in a data frame whose CRC is wrong writes nothing to the
\* file, leaves bytesTransferred as it was, sends ZRPOS and goes back to
\* AWAIT_HEADER (SpecModule).
C18_CommitAfterCrc ==
    [][(/\ act'.op = "loop"
        /\ node["A"].currentState = "RECEIVING"
        /\ node["A"].rState = "READ_ZDATA"
        /\ BadDataFrame \in AcceptedNow(node'["A"]))
       => /\ node'["A"].fs = node["A"].fs
          /\ node'["A"].bytesTransferred = node["A"].bytesTransferred
          /\ \E i \in 1..Len(node'["A"].sentHdrs) : node'["A"].sentHdrs[i] = ZRPOS
          /\ node'["A"].rState = "AWAIT_HEADER"]_vars

\* C19 (header CRC validation): a loop() call in which the engine takes in a
\* HEX header whose CRC characters are wrong reports no header, makes no
\* transition and leaves lastActivity as it was (SpecModule).
C19_HeaderCrc ==
    [][(/\ act'.op = "loop"
        /\ node["A"].currentState = "RECEIVING"
        /\ node["A"].rState = "AWAIT_HEADER"
        /\ BadFinHdr \in AcceptedNow(node'["A"]))
       => /\ node'["A"].hdrs = <<>>
          /\ node'["A"].state = node["A"].state
          /\ node'["A"].rState = node["A"].rState
          /\ node'["A"].lastActivity = node["A"].lastActivity]_vars

\* C20 (activity tracking): a loop() call in which the engine reads a valid
\* header, writes file data it has received or hands a packet to the mesh
\* leaves lastActivity at the time of the call (SpecModule).
C20_Activity ==
    [][(/\ act'.op = "loop"
        /\ node'["A"].currentState \in {"SENDING", "RECEIVING"}
        /\ \/ node'["A"].hdrs # <<>>
           \/ node'["A"].emitted # <<>>
           \/ Len(node'["A"].fs[PathB]) > Len(node["A"].fs[PathB]))
       => node'["A"].lastActivity = 0]_vars

\* The ZDATA frame that carries the offset off and the len bytes of the file
\* that follow position fp.
FrameAt(file, off, fp, len) ==
    BinHeaderBytes(ZDATA, posFlags(off))
    \o SubpacketBytes(SubSeq(file, fp + 1, fp + len), fp + len = Len(file))
\* The numbers 0, 1, 2, ... in order.
Counting(s) == \A i \in 1..Len(s) : s[i] = i - 1
\* The loop() call that has taken the sender from n to n2 has read a ZRPOS
\* header while the sender was streaming.
Rewound(n, n2) ==
    /\ n.currentState = "SENDING"
    /\ n.state = "SEND_ZDATA"
    /\ n2.hdrs = <<ZRPOS>>
\* What the call has done with the position pos: the sender has gone on from
\* pos (the frame it has written carries the offset pos and the file bytes
\* from pos on, the file position and the byte count are behind that chunk),
\* it is still streaming unless that chunk was the last, and the sequence
\* numbers of the shim have gone on counting.
ResumedAt(n, n2, pos) ==
    LET file == n.fs[PathA]
        rest == Len(file) - pos
        len == IF rest > ChunkSize THEN ChunkSize ELSE IF rest > 0 THEN rest ELSE 0
    IN  /\ n2.written = IF len > 0 THEN FrameAt(file, pos, pos, len) ELSE <<>>
        /\ n2.filePos = pos + len
        /\ n2.zBytesTransferred = pos + len
        /\ n2.state = IF pos + len = Len(file) THEN "SEND_ZEOF" ELSE "SEND_ZDATA"
        /\ n2.sentPacketId >= n.sentPacketId
        /\ IsPrefix(n.seqLog, n2.seqLog)
        /\ Counting(n2.seqLog)
Forward(s, t, h) ==
    \/ s = "SEND_ZRQINIT" /\ t = "SEND_ZFILE" /\ h = <<ZRINIT>>
    \/ s = "SEND_ZFILE" /\ t \in {"SEND_ZDATA", "SEND_ZEOF"} /\ h = <<ZRPOS>>
    \/ s = "SEND_ZDATA" /\ t = "SEND_ZEOF"
    \/ s = "SEND_ZEOF" /\ t = "SEND_ZFIN" /\ h = <<ZRINIT>>
    \/ s = "SEND_ZFIN" /\ t = "COMPLETE" /\ h = <<ZFIN>>
\* C22 (sender state order): the engine's state changes only when startSend()
\* is accepted, which sets SEND_ZRQINIT, and in loop() calls of the sending
\* coordinator, which move it to ERROR or forward along SEND_ZRQINIT,
\* SEND_ZFILE, SEND_ZDATA, SEND_ZEOF, SEND_ZFIN, COMPLETE, one state at a time
\* and each on the header it waits for; COMPLETE is entered from SEND_ZFIN
\* only, in a call that has read a ZFIN header (SpecFile).
C22_StateOrder ==
    [][node'["A"].state # node["A"].state
       => \/ /\ act'.op = "startSend"
             /\ node'["A"].ret = 1
             /\ node'["A"].state = "SEND_ZRQINIT"
          \/ /\ act'.op = "loop"
             /\ node["A"].currentState = "SENDING"
             /\ \/ node'["A"].state = "ERROR"
                \/ Forward(node["A"].state, node'["A"].state, node'["A"].hdrs)]_vars
\* The sender has completed: the whole file is out and the ZFIN of the peer
\* has been read.
C22_Witness ==
    /\ act.op = "loop"
    /\ node["A"].state = "COMPLETE"
    /\ node["A"].currentState = "COMPLETE"
    /\ node["A"].hdrs = <<ZFIN>>
    /\ node["A"].zBytesTransferred = BigLen
    /\ Len(node["A"].payAll) > BigLen

\* The loop() call that has taken the sender from n to n2 has written a ZDATA
\* frame.
WroteData(n, n2) ==
    /\ n.currentState = "SENDING"
    /\ IsPrefix(<<ZPAD, ZDLE, ZBIN, ZDATA>>, n2.written)
\* The byte count of the sender when the call read the chunk: the position a
\* ZRPOS header read in the call has asked for, else the byte count before
\* the call.
CountAtRead(n, n2) ==
    IF n2.hdrs = <<ZRPOS>> /\ n.state \in {"SEND_ZFILE", "SEND_ZDATA"}
    THEN flagsPos(n2.rxFlags)
    ELSE n.zBytesTransferred
\* The frame written in the call is one chunk of at most ChunkSize bytes read
\* at the file position; its header carries the byte count at the read, the
\* byte count has grown by the length of the chunk, the frame is ended (ZCRCE)
\* iff the chunk is the last of the file, and then the sender is in SEND_ZEOF.
OneChunk(n, n2) ==
    LET file == n.fs[PathA]
        off == CountAtRead(n, n2)
        len == n2.zBytesTransferred - off
        fp == n2.filePos - len
    IN  /\ len \in 1..ChunkSize
        /\ fp >= 0
        /\ len = ChunkSize \/ fp + len = Len(file)
        /\ n2.written = FrameAt(file, off, fp, len)
        /\ n2.state = IF fp + len = Len(file) THEN "SEND_ZEOF" ELSE "SEND_ZDATA"
\* The byte count at the read is the file position at the read.
CountIsPosition(n, n2) ==
    n2.filePos - (n2.zBytesTransferred - CountAtRead(n, n2)) = CountAtRead(n, n2)
\* No position past the end of the file has been asked for: the byte count
\* was the file position before the call, and a ZRPOS header read in the call
\* names a position of the file.
InFile(n, n2) ==
    /\ n.filePos = n.zBytesTransferred
    /\ CountAtRead(n, n2) <= Len(n.fs[PathA])
ReadHeader(n, n2, type) ==
    /\ n.currentState = "RECEIVING"
    /\ n2.hdrs = <<type>>
\* The call has answered with ZRPOS for the byte count the receiver had.
AnsweredZrpos(n, n2) ==
    IsPrefix(HexHeaderBytes(ZRPOS, posFlags(n.zBytesTransferred)), n2.written)
\* C24 (receiver ZEOF check): a loop() call in which the receiver reads
\* ZEOF(pos) answers ZRINIT when pos is its byte count and the byte count is
\* the announced size (or no size is known); otherwise it answers
\* ZRPOS(byte count) and not ZRINIT (SpecRx).
C24_EofCheck ==
    [][(act'.op = "loop" /\ ReadHeader(node["A"], node'["A"], ZEOF))
       => IF /\ flagsPos(node'["A"].rxFlags) = node["A"].zBytesTransferred
             /\ node["A"].zFileSize \in {0, node["A"].zBytesTransferred}
          THEN IsPrefix(HexHeaderBytes(ZRINIT, ZERO_FLAGS), node'["A"].written)
          ELSE /\ AnsweredZrpos(node["A"], node'["A"])
               /\ ~IsPrefix(HexHeaderBytes(ZRINIT, ZERO_FLAGS), node'["A"].written)]_vars

\* C25 (receiver ZDATA position check): a loop() call in which the receiver,
\* awaiting a header, reads ZDATA(pos) enters READ_ZDATA when pos is its byte
\* count; otherwise it writes nothing to the file, answers ZRPOS(byte count)
\* and stays in AWAIT_HEADER (SpecRx).
C25_DataCheck ==
    [][(/\ act'.op = "loop"
        /\ ReadHeader(node["A"], node'["A"], ZDATA)
        /\ node["A"].rState = "AWAIT_HEADER")
       => IF flagsPos(node'["A"].rxFlags) = node["A"].zBytesTransferred
          THEN node'["A"].rState = "READ_ZDATA"
          ELSE /\ node'["A"].fs = node["A"].fs
               /\ AnsweredZrpos(node["A"], node'["A"])
               /\ node'["A"].rState = "AWAIT_HEADER"]_vars

\* C26 (ZRPOS offset): a ZRPOS header the receiver writes in a loop() call
\* carries the byte count of the receiver (SpecRx).
C26_ZrposOffset ==
    [][(/\ act'.op = "loop"
        /\ node["A"].currentState = "RECEIVING"
        /\ node'["A"].sentHdrs # <<>>
        /\ node'["A"].sentHdrs[1] = ZRPOS)
       => AnsweredZrpos(node["A"], node'["A"])]_vars

\* C27 (keepalive): a loop() call of the receiver that sends the keepalive
\* ZRINIT is made more than 3,000 ms after the receiver was started or last
\* read a header, and reads no header and writes no file data itself
\* (SpecModule).
C27_Keepalive ==
    [][(/\ act'.op = "loop"
        /\ node["A"].currentState = "RECEIVING"
        /\ node["A"].lastAck > KeepaliveMs
        /\ node'["A"].lastAck = 0)
       => /\ node["A"].lastActivity > KeepaliveMs
          /\ node'["A"].hdrs = <<>>
          /\ node'["A"].fs = node["A"].fs]_vars

\* C28 (ZFILE subpacket split across polls): a loop() call in which the
\* receiver, waiting for the CRC of the ZFILE subpacket, takes in the datagram
\* with the two CRC bytes reads them as the CRC: it parses the file info
\* (the size announced is that of the peer's file), sends ZRPOS and enters
\* READ_ZDATA, as it does when the frame arrives in one datagram (SpecRx).
C28_SplitFileInfo ==
    [][(/\ act'.op = "loop"
        /\ node["A"].currentState = "RECEIVING"
        /\ node["A"].rState = "READ_ZFILE"
        /\ node["A"].fileInfoAwaitingCRC
        /\ ZfileCrc \in AcceptedNow(node'["A"]))
       => /\ node'["A"].rState = "READ_ZDATA"
          /\ node'["A"].zFileSize = Len(PeerFile)
          /\ node'["A"].sentHdrs # <<>>
          /\ node'["A"].sentHdrs[1] = ZRPOS
          /\ node'["A"].fileInfoBuffer = <<>>]_vars

\* C29 (file-info bound): after every loop() call the file-info buffer holds
\* at most one byte less than its size, so that the terminating NUL fits; a
\* call in which the receiver takes in a ZFILE frame whose file info is
\* longer than that ends with the engine in ERROR (SpecRx).
C29_FileInfoBound ==
    [][act'.op = "loop"
       => /\ Len(node'["A"].fileInfoBuffer) <= FileInfoBufferSize - 1
          /\ AcceptedNow(node'["A"]) \cap {LongInfo, LongEscInfo} # {}
                => node'["A"].state = "ERROR" /\ node'["A"].zres = "ERROR"]_vars
\* A loop() call has filled the file-info buffer and ended the transfer.
C29_Witness ==
    /\ act.op = "loop"
    /\ LongEscInfo \in AcceptedNow(node["A"])
    /\ Len(node["A"].fileInfoBuffer) = FileInfoBufferSize - 1
    /\ node["A"].zres = "ERROR"

\* The last bytes written in the call are those of abort().
AbortWritten(n2) ==
    /\ Len(n2.written) >= Len(AbortSeq)
    /\ SubSeq(n2.written, Len(n2.written) - Len(AbortSeq) + 1, Len(n2.written)) = AbortSeq
\* C30 (no retry limit): the engine enters ERROR only in a loop() call made
\* more than the timeout after the last activity, in a loop() call that
\* overflows the file-info buffer, or by abort(); sending a header again
\* never does it (SpecFile).
C30_NoRetryLimit ==
    [][(node'["A"].state = "ERROR" /\ node["A"].state # "ERROR")
       => IF act'.op = "loop"
          THEN \/ node["A"].lastActivity > node["A"].timeoutMs
               \/ node'["A"].returned
          ELSE AbortWritten(node'["A"])]_vars
\* The sender has sent ZRQINIT a second time and is still sending.
C30_Witness ==
    /\ act.op = "loop"
    /\ node["A"].currentState = "SENDING"
    /\ node["A"].state = "SEND_ZRQINIT"
    /\ node["A"].sentHdrs = <<ZRQINIT>>
    /\ IsPrefix(AbortSeq \o HexHeaderBytes(ZRQINIT, ZERO_FLAGS)
                         \o HexHeaderBytes(ZRQINIT, ZERO_FLAGS),
                node["A"].payLog \o node["A"].txBuffer)

\* The bytes a transfer has written to the stream by the time its start call
\* returns: none for a sender, the ZRINIT header for a receiver.
OwnBytes(op) == IF op = "startReceive" THEN HexHeaderBytes(ZRINIT, ZERO_FLAGS) ELSE <<>>
\* C31 (fresh shim per transfer): when a startSend() or startReceive() call
\* returns true, both sequence numbers of the shim are 0, its rx buffer is
\* empty, its tx buffer holds the bytes the new transfer has written and no
\* others, and no datagram has gone out with other bytes (Spec).
C31_FreshShim ==
    [][(act'.op \in {"startSend", "startReceive"} /\ node'["A"].ret = 1)
       => /\ node'["A"].sentPacketId = 0
          /\ node'["A"].expectedPacketId = 0
          /\ node'["A"].rxBuffer = <<>>
          /\ node'["A"].txBuffer = OwnBytes(act'.op)
          /\ node'["A"].emitted = <<>>]_vars

\* The loop() call that has taken the sender from n to n2 has sent a ZEOF
\* header.
SentEof(n, n2) ==
    /\ n.currentState = "SENDING"
    /\ n2.sentHdrs = <<ZEOF>>
\* s occurs in t as a run of consecutive elements.
Occurs(s, t) == \E i \in 0..(Len(t) - Len(s)) : SubSeq(t, i + 1, i + Len(s)) = s
Reserved == {ZDLE, 16, 17, 19, 13, 141}
\* The encoding enc of a data byte holds a reserved byte only as the ZDLE that
\* opens a pair, and the byte that follows the ZDLE is neither reserved nor
\* one of the two frame ends.
CleanEncoding(enc) ==
    /\ \A i \in 1..Len(enc) :
          enc[i] \in Reserved => (i = 1 /\ Len(enc) = 2 /\ enc[i] = ZDLE)
    /\ Len(enc) = 2 => enc[2] \notin Reserved \cup {ZCRCE, ZCRCG}
\* C33 (escape round-trip): a loop() call in which the receiver, reading a
\* subpacket, takes in the datagram with the encoding of the data byte b stores
\* exactly b, is outside an escape afterwards and has seen no end of the
\* subpacket; the encoding holds none of the reserved bytes but the ZDLE that
\* opens the pair, whose second byte is neither reserved nor ZCRCE or ZCRCG
\* (SpecEsc).
C33_RoundTrip ==
    [][(act.op = "feed" /\ act'.op = "loop")
       => /\ node'["A"].fileInfoBuffer = Append(node["A"].fileInfoBuffer, act.arg[1])
          /\ ~node'["A"].fileInfoEscape
          /\ ~node'["A"].fileInfoAwaitingCRC
          /\ node'["A"].rState = "READ_ZFILE"
          /\ node'["A"].state = node["A"].state
          /\ node'["A"].rxBuffer = <<>>
          /\ CleanEncoding(SubSeq(Head(node["A"].inq), 4, Len(Head(node["A"].inq))))]_vars
\* The receiver has taken in the pair ZDLE, 0xCD and has stored the byte 0x8D
\* behind the XON that ended the ZFILE header.
C33_Witness ==
    /\ act.op = "loop"
    /\ Len(node["A"].exams) = 1
    /\ SubSeq(node["A"].exams[1].packet, 4, Len(node["A"].exams[1].packet)) = <<ZDLE, 205>>
    /\ node["A"].fileInfoBuffer = <<XON, 141>>

\* The datagram node id expects is lost: its peer has sent it (the peer
\* numbers its next datagram higher) and the mesh does not hold it for the node
\* any more, while the transfer of the node runs.
Deaf(id) ==
    /\ node[id].currentState \in {"SENDING", "RECEIVING"}
    /\ node[Peer(id)].sentPacketId > node[id].expectedPacketId
    /\ \A i \in 1..Len(node[id].inq) : SeqOf(node[id].inq[i]) > node[id].expectedPacketId
\* C34 (permanent deafness after a gap): once the datagram a node expects is
\* lost, no step in which its transfer goes on (no start, abort or end of the
\* transfer, which reset the shim) changes the expected sequence number or
\* hands the engine a byte of a later datagram; the peer numbers its datagrams
\* upwards, so the node stays in that state (SpecLoss).
C34_Deafness ==
    [][\A id \in Nodes :
          (Deaf(id) /\ node'[id].currentState = node[id].currentState)
             => /\ node'[id].expectedPacketId = node[id].expectedPacketId
                /\ node'[id].accAll = node[id].accAll
                /\ \A i \in 1..Len(node'[id].exams) : ~node'[id].exams[i].accepted
                /\ node'[Peer(id)].sentPacketId >= node[Peer(id)].sentPacketId
                      => \A i \in 1..Len(node'[id].inq) :
                            SeqOf(node'[id].inq[i]) > node'[id].expectedPacketId]_vars
\* A node whose transfer runs has turned away a datagram numbered ahead of
\* the one it expects, which is lost.
C34_Witness ==
    \E id \in Nodes :
        /\ act.op = "loop"
        /\ act.id = id
        /\ Deaf(id)
        /\ \E i \in 1..Len(node[id].exams) :
              /\ ~node[id].exams[i].accepted
              /\ SeqOf(node[id].exams[i].packet) > node[id].exams[i].expBefore

\* The coordinator of node A is in COMPLETE with bytes still in the tx buffer
\* of its shim.
C35_Unsent == node["A"].currentState = "COMPLETE" /\ node["A"].txBuffer # <<>>
\* The tx buffer of node A is empty.
C35_Flushed == node["A"].txBuffer = <<>>
\* C35 (every written byte is eventually sent): under LiveNet, where the mesh
\* takes every packet, the bytes that are in the tx buffer when the
\* coordinator reaches COMPLETE eventually leave it.
C35_EventuallySent == C35_Unsent ~> C35_Flushed

\* The transfer of node A runs.
Running == node["A"].currentState \in {"SENDING", "RECEIVING"}
\* Node A waits for a header with fewer unread bytes in its rx buffer than the
\* header reader asks for.
C36_Residue ==
    /\ Running
    /\ node["A"].isSender \/ node["A"].rState = "AWAIT_HEADER"
    /\ Len(node["A"].rxBuffer) \in 1..(HeaderMin - 1)
\* The transfer of node A runs and its rx buffer is empty: the shim takes the
\* next datagram.
C36_Ready == Running /\ node["A"].rxBuffer = <<>>
\* C36 (inbound stream is always drained): under LiveNet, when node A waits
\* for a header with 1 to 11 unread bytes in its rx buffer, the engine
\* eventually consumes them and the shim, its transfer still running, is
\* ready for the next datagram.
C36_Drained == C36_Residue ~> C36_Ready

\* C37 (no stream byte is lost at the adapter): the payload bytes of the
\* datagrams node A has emitted since the last reset of its shim are a prefix
\* of the bytes for which write() has returned 1 since then, in the same
\* order, whatever the mesh refuses (SpecTx).
C37_NoByteLost == IsPrefix(node["A"].payLog, node["A"].wrLog)

\* The first bytes of a ZEOF header.
EofStart == <<ZPAD, ZPAD, ZDLE, ZHEX>> \o Hex2(ZEOF)
\* C38 (ZEOF is really acknowledged): the sender goes from SEND_ZEOF to
\* SEND_ZFIN only when a ZEOF header of the transfer has left the node, so
\* that the receiver can have processed it (SpecFile).
C38_EofAcked ==
    [][(node["A"].state = "SEND_ZEOF" /\ node'["A"].state = "SEND_ZFIN")
       => Occurs(EofStart, node'["A"].payLog)]_vars

\* C39 (sender offset bound): while node A sends, bytes_transferred is at
\* most the size of the file and equals the read position of the file,
\* whatever positions the ZRPOS headers of the peer carry (SpecFile).
C39_OffsetBound ==
    node["A"].currentState = "SENDING"
        => /\ node["A"].zBytesTransferred <= node["A"].zFileSize
           /\ node["A"].zBytesTransferred = node["A"].filePos

\* The loop() call that has taken the sender from n to n2 has read, after the
\* last chunk, one header that the state of the sender does not wait for.
Unawaited(n, n2) ==
    /\ n.currentState = "SENDING"
    /\ n.state \in {"SEND_ZEOF", "SEND_ZFIN"}
    /\ Len(n2.hdrs) = 1
    /\ ~(n.state = "SEND_ZEOF" /\ n2.hdrs[1] = ZRINIT)
    /\ ~(n.state = "SEND_ZFIN" /\ n2.hdrs[1] = ZFIN)
\* C40 (headers ignored after the last chunk): a loop() call in which the
\* sender, in SEND_ZEOF or SEND_ZFIN, reads a header other than the one it
\* waits for (ZRINIT in SEND_ZEOF, ZFIN in SEND_ZFIN), a ZRPOS in particular,
\* leaves the state, the file position, the file and bytes_transferred as
\* they were and sets lastActivity; it writes nothing but the ZEOF or ZFIN
\* header that is due (SpecFile).
C40_Ignored ==
    [][(act'.op = "loop" /\ Unawaited(node["A"], node'["A"]))
       => /\ node'["A"].state = node["A"].state
          /\ node'["A"].currentState = "SENDING"
          /\ node'["A"].filePos = node["A"].filePos
          /\ node'["A"].fileOpen
          /\ node'["A"].fs = node["A"].fs
          /\ node'["A"].zBytesTransferred = node["A"].zBytesTransferred
          /\ node'["A"].zFileSize = node["A"].zFileSize
          /\ node'["A"].lastActivity = 0
          /\ node'["A"].written
                \in {<<>>,
                     HexHeaderBytes(ZEOF, posFlags(node["A"].zBytesTransferred)),
                     HexHeaderBytes(ZFIN, ZERO_FLAGS)}]_vars
\* The sender, the whole file out, has read a ZRPOS for MidPos in SEND_ZEOF
\* and is still there, the file at its end.
C40_Witness ==
    /\ act.op = "loop"
    /\ node["A"].state = "SEND_ZEOF"
    /\ node["A"].hdrs = <<ZRPOS>>
    /\ flagsPos(node["A"].rxFlags) = MidPos
    /\ node["A"].zBytesTransferred = BigLen
    /\ node["A"].filePos = BigLen
====
